---- MODULE Spec2Model ----
(***************************************************************************)
(* Verification model of the multi-tenant ticketing backend                *)
(* (backend/src/functions/*.py, backend/src/organizations/*.py).           *)
(*                                                                         *)
(*   AuthSpec   the pure access-control predicates of auth.py, applied to  *)
(*              every actor / ticket shape of a bounded input space.       *)
(*   Spec       the tickets table under update_ticket (get_item, then a    *)
(*              conditional update_item) and delete_ticket requests that   *)
(*              may interleave.                                            *)
(*   UsersSpec  the users table under update_user_role, get_user_me,       *)
(*              list_users and get_technicians requests executed one at    *)
(*              a time.                                                    *)
(*   WorkflowSpec  tickets and comments under create_comment,              *)
(*              list_comments, assign_ticket, update_ticket and            *)
(*              delete_ticket requests that may interleave.                *)
(*   OrgsSpec   the organizations table under create_organization          *)
(*              requests (scan, then put_item) that may interleave.        *)
(*   ListingSpec  list_tickets applied to every table of a bounded space,  *)
(*              and the cursor conversions applied to keys of any shape.   *)
(*   CreateSpec  the tickets and users tables under create_ticket requests *)
(*              executed one at a time, a store call of the user sync      *)
(*              failing or not.                                            *)
(*   RoleRaceSpec  the users table under update_user_role requests whose   *)
(*              get_item, scan and update_item calls may interleave.       *)
(*   RoleFaultSpec  the same, the scan of the platform admins failing or   *)
(*              not.                                                       *)
(*                                                                         *)
(* Python dicts are functions with a string domain; dict.get(k) is Get.    *)
(* Python None is the string None; "" is the empty string; both are falsy. *)
(***************************************************************************)
EXTENDS Integers, Sequences, FiniteSets, TLC

VARIABLES
    claims,     \* AuthSpec: identity claims of the request under evaluation
    ticket,     \* AuthSpec: ticket dict handed to the predicates
    orgArg,     \* AuthSpec: org id handed to can_access_org / can_manage_org
    verdict,    \* AuthSpec: results of the predicates ("none" before the call)
    tickets,    \* Spec: tickets table, ticketId -> item
    pending,    \* Spec: per request, its handler's locals and then its response
    clock,      \* Spec: source of datetime.now() values
    request,    \* UsersSpec: the request being served, then its response
    users,      \* UsersSpec: users table, userId -> item
    comments,   \* WorkflowSpec: comments table, a sequence of items in put order
    orgs        \* OrgsSpec: organizations table, orgId -> item

vars == <<claims, ticket, orgArg, verdict, tickets, pending, clock, request, users,
          comments, orgs>>

None == "<None>"

\* Python truthiness of an optional string.
Truthy(x) == x \notin {None, ""}

\* dict.get(key) / dict.get(key, default)
GetOr(d, k, default) == IF k \in DOMAIN d THEN d[k] ELSE default
Get(d, k) == GetOr(d, k, None)

\* All dicts whose keys are a subset of DOMAIN valuesOf and whose value at k is in valuesOf[k].
Dicts(valuesOf) ==
    UNION { { d \in [S -> UNION { valuesOf[k] : k \in S }] : \A k \in S : d[k] \in valuesOf[k] }
            : S \in SUBSET DOMAIN valuesOf }

\* A request that has not arrived yet.
Idle == [pc |-> "idle"]

(***************************************************************************)
(* str.lower() / str.upper() on the role, status and priority strings the  *)
(* inputs are drawn from.                                                  *)
(***************************************************************************)
LowerTable ==
    [s \in {"PLATFORM_ADMIN", "Platform_Admin", "ORG_ADMIN", "TECHNICIAN", "Technician",
            "CUSTOMER", "Customer", "ADMIN", "AGENT", "SuperUser", "Acme"} |->
        CASE s \in {"PLATFORM_ADMIN", "Platform_Admin"} -> "platform_admin"
          [] s = "ORG_ADMIN" -> "org_admin"
          [] s \in {"TECHNICIAN", "Technician"} -> "technician"
          [] s \in {"CUSTOMER", "Customer"} -> "customer"
          [] s = "ADMIN" -> "admin"
          [] s = "AGENT" -> "agent"
          [] s = "SuperUser" -> "superuser"
          [] s = "Acme" -> "acme"]

Lower(s) == IF s \in DOMAIN LowerTable THEN LowerTable[s] ELSE s

UpperTable ==
    [s \in {"open", "in_progress", "waiting", "resolved", "Resolved", "closed", "deleted",
            "bogus", "low", "medium", "high", "critical", "urgent"} |->
        CASE s = "open" -> "OPEN"
          [] s = "in_progress" -> "IN_PROGRESS"
          [] s = "waiting" -> "WAITING"
          [] s \in {"resolved", "Resolved"} -> "RESOLVED"
          [] s = "closed" -> "CLOSED"
          [] s = "deleted" -> "DELETED"
          [] s = "bogus" -> "BOGUS"
          [] s = "low" -> "LOW"
          [] s = "medium" -> "MEDIUM"
          [] s = "high" -> "HIGH"
          [] s = "critical" -> "CRITICAL"
          [] s = "urgent" -> "URGENT"]

Upper(s) == IF s \in DOMAIN UpperTable THEN UpperTable[s] ELSE s

(***************************************************************************)
(* auth.py: UserContext and its predicates                                 *)
(***************************************************************************)
UserContext_mutNoFold(user_id, role, org_id) ==
    [user_id |-> user_id, role |-> role, org_id |-> org_id]

UserContext(user_id, role, org_id) ==
    [user_id |-> user_id, role |-> Lower(role), org_id |-> org_id]

is_platform_admin(user) == user.role = "platform_admin"
is_org_admin(user) == user.role = "org_admin"
is_technician(user) == user.role = "technician"
is_customer(user) == user.role = "customer"
is_admin(user) == is_platform_admin(user) \/ is_org_admin(user)
is_agent(user) == is_platform_admin(user) \/ is_org_admin(user) \/ is_technician(user)

can_access_org(user, org_id) ==
    IF is_platform_admin(user) THEN TRUE
    ELSE user.org_id = org_id

can_manage_org(user, org_id) ==
    IF is_platform_admin(user) THEN TRUE
    ELSE is_org_admin(user) /\ user.org_id = org_id

\* A can_access_ticket in which ownership is tested before the org check.
can_access_ticket_mutOwnerFirst(user, t) ==
    IF is_platform_admin(user) THEN TRUE
    ELSE IF Get(t, "createdBy") = user.user_id THEN TRUE
    ELSE IF Truthy(Get(t, "orgId")) /\ user.org_id # Get(t, "orgId") THEN FALSE
    ELSE is_org_admin(user) \/ is_technician(user)

can_access_ticket(user, t) ==
    IF is_platform_admin(user) THEN TRUE
    ELSE IF Truthy(Get(t, "orgId")) /\ user.org_id # Get(t, "orgId") THEN FALSE
    ELSE IF is_org_admin(user) \/ is_technician(user) THEN TRUE
    ELSE Get(t, "createdBy") = user.user_id

can_update_ticket(user, t) ==
    IF is_platform_admin(user) THEN TRUE
    ELSE IF Truthy(Get(t, "orgId")) /\ user.org_id # Get(t, "orgId") THEN FALSE
    ELSE IF is_org_admin(user) \/ is_technician(user) THEN TRUE
    ELSE Get(t, "createdBy") = user.user_id

can_delete_ticket(user, t, hard_delete) ==
    IF hard_delete THEN is_platform_admin(user)
    ELSE IF is_platform_admin(user) THEN TRUE
    ELSE IF Truthy(Get(t, "orgId")) /\ user.org_id # Get(t, "orgId") THEN FALSE
    ELSE IF is_org_admin(user) THEN TRUE
    ELSE IF is_technician(user) THEN TRUE
    ELSE Get(t, "createdBy") = user.user_id

\* A can_assign_ticket without the same-org test.
can_assign_ticket_mutNoOrgCheck(user, t) ==
    IF is_platform_admin(user) THEN TRUE
    ELSE is_org_admin(user) \/ is_technician(user)

can_assign_ticket(user, t) ==
    IF is_platform_admin(user) THEN TRUE
    ELSE IF Truthy(Get(t, "orgId")) /\ user.org_id # Get(t, "orgId") THEN FALSE
    ELSE is_org_admin(user) \/ is_technician(user)

\* `not claims` holds for a missing and for an empty claims dict: both are the empty dict here.
extract_user_from_event(c) ==
    IF DOMAIN c = {}
    THEN UserContext("test-user-123", "customer", "test-org-123")
    ELSE UserContext(GetOr(c, "sub", "unknown"),
                     GetOr(c, "custom:role", "customer"),
                     Get(c, "custom:orgId"))

(***************************************************************************)
(* Input spaces                                                            *)
(***************************************************************************)
\* The claims dict of a token that carries a subject, a role and an organization.
ClaimsFor(sub, role, org_id) ==
    [k \in {"sub", "custom:role", "custom:orgId"} |->
        CASE k = "sub" -> sub [] k = "custom:role" -> role [] OTHER -> org_id]

OrgIds == {"org-1", "org-2"}
RawRoles == {"platform_admin", "PLATFORM_ADMIN", "org_admin", "ORG_ADMIN", "technician",
             "customer", "CUSTOMER", "AGENT", "SuperUser"}

ClaimSets ==
    Dicts([k \in {"sub", "custom:role", "custom:orgId"} |->
              CASE k = "sub" -> {"u1", "u2"}
                [] k = "custom:role" -> RawRoles
                [] k = "custom:orgId" -> OrgIds])

TicketShapes ==
    Dicts([k \in {"orgId", "createdBy"} |->
              CASE k = "orgId" -> OrgIds
                [] k = "createdBy" -> {"u1", "u2"}])

NoVerdict == [evaluated |-> FALSE]

Evaluated == verdict.evaluated

(***************************************************************************)
(* AuthSpec: one request's claims are parsed into a UserContext and every  *)
(* predicate is applied to the ticket / org at hand.                       *)
(***************************************************************************)
AuthInit ==
    /\ claims \in ClaimSets
    /\ ticket \in TicketShapes
    /\ orgArg \in OrgIds \cup {None}
    /\ verdict = NoVerdict
    /\ tickets = << >>
    /\ pending = << >>
    /\ clock = 0
    /\ request = Idle
    /\ users = << >>
    /\ comments = << >>
    /\ orgs = << >>

EvaluatePredicates ==
    /\ ~Evaluated
    /\ LET user == extract_user_from_event(claims) IN
       verdict' = [evaluated |-> TRUE,
                   user |-> user,
                   access |-> can_access_ticket(user, ticket),
                   update |-> can_update_ticket(user, ticket),
                   delete |-> can_delete_ticket(user, ticket, FALSE),
                   hard_delete |-> can_delete_ticket(user, ticket, TRUE),
                   assign |-> can_assign_ticket(user, ticket),
                   access_org |-> can_access_org(user, orgArg),
                   manage_org |-> can_manage_org(user, orgArg)]
    /\ UNCHANGED <<claims, ticket, orgArg, tickets, pending, clock, request, users,
                 comments, orgs>>

AuthNext == EvaluatePredicates

AuthSpec == AuthInit /\ [][AuthNext]_vars

(***************************************************************************)
(* update_ticket.py / delete_ticket.py: the tickets table                  *)
(*                                                                         *)
(* An item is a dict; the fields kept are the ones the two handlers read   *)
(* or write.  Each request is one Lambda invocation and owns a slot of     *)
(* pending: "idle" before it arrives, the handler's locals between its     *)
(* get_item and its write, and the response once it has returned.  The     *)
(* write is a separate store call, so the steps of two requests            *)
(* interleave as two invocations do.                                       *)
(***************************************************************************)
MaxRequests == 2
Slots == 1..MaxRequests
TicketIds == {"t1", "t2"}

UPDATABLE_FIELDS == {"status", "priority", "assignedTo", "resolution", "tags", "category"}
VALID_STATUSES == {"OPEN", "IN_PROGRESS", "WAITING", "RESOLVED", "CLOSED"}
VALID_PRIORITIES == {"LOW", "MEDIUM", "HIGH", "CRITICAL"}

\* JSON texts of the tags values sent: isinstance(v, list) holds for the first set only.
TagLists == {"[]", "[vip]"}

create_response(op, status_code, error) ==
    [pc |-> "done", op |-> op, code |-> status_code, error |-> error]

extract_user_id(c) == GetOr(c, "sub", "test-user-123")
extract_user_role(c) == GetOr(c, "custom:role", "CUSTOMER")

is_authorized_to_update(t, user_id, user_role) ==
    IF user_role \in {"ADMIN", "AGENT"} THEN TRUE
    ELSE IF user_role = "CUSTOMER" THEN Get(t, "createdBy") = user_id
    ELSE FALSE

\* A validation that forgets the resolution requirement of RESOLVED.
validate_update_fields_mutNoResolution(updates, existing_ticket) ==
    IF DOMAIN updates \ UPDATABLE_FIELDS # {} THEN "Invalid fields"
    ELSE IF "status" \in DOMAIN updates /\ Upper(updates["status"]) \notin VALID_STATUSES
    THEN "Invalid status"
    ELSE IF "priority" \in DOMAIN updates /\ Upper(updates["priority"]) \notin VALID_PRIORITIES
    THEN "Invalid priority"
    ELSE IF "tags" \in DOMAIN updates /\ updates["tags"] \notin TagLists
    THEN "Tags must be an array"
    ELSE None

\* The error message, or None when the update is valid.
validate_update_fields(updates, existing_ticket) ==
    IF DOMAIN updates \ UPDATABLE_FIELDS # {} THEN "Invalid fields"
    ELSE IF "status" \in DOMAIN updates /\ Upper(updates["status"]) \notin VALID_STATUSES
    THEN "Invalid status"
    ELSE IF /\ "status" \in DOMAIN updates
            /\ Upper(updates["status"]) = "RESOLVED"
            /\ ~Truthy(Get(updates, "resolution"))
    THEN "Resolution is required when status is RESOLVED"
    ELSE IF "priority" \in DOMAIN updates /\ Upper(updates["priority"]) \notin VALID_PRIORITIES
    THEN "Invalid priority"
    ELSE IF "tags" \in DOMAIN updates /\ updates["tags"] \notin TagLists
    THEN "Tags must be an array"
    ELSE None

\* The SET clause as a dict field -> new value; now is the timestamp taken in the call.
build_update_expression(updates, user_id, now) ==
    LET fields == DOMAIN updates \cap UPDATABLE_FIELDS
        resolved == "status" \in DOMAIN updates /\ Upper(updates["status"]) = "RESOLVED"
        meta == {"updatedAt", "updatedBy"} \cup (IF resolved THEN {"resolvedAt"} ELSE {})
    IN [f \in fields \cup meta |->
          CASE f = "updatedAt" -> now
            [] f = "updatedBy" -> user_id
            [] f = "resolvedAt" -> now
            [] f \in {"status", "priority"} -> Upper(updates[f])
            [] OTHER -> updates[f]]

\* DynamoDB SET: the named attributes are replaced, the others kept.
ApplySet(item, sets) ==
    [f \in DOMAIN item \cup DOMAIN sets |-> IF f \in DOMAIN sets THEN sets[f] ELSE item[f]]

DeleteItem(table, key) == [k \in DOMAIN table \ {key} |-> table[k]]

is_authorized_to_delete(t, user_id, user_role, hard_delete) ==
    IF hard_delete /\ user_role # "ADMIN" THEN FALSE
    ELSE IF user_role \in {"ADMIN", "AGENT"} THEN TRUE
    ELSE IF user_role = "CUSTOMER" THEN Get(t, "createdBy") = user_id
    ELSE FALSE

(***************************************************************************)
(* Requests sent to the two ticket handlers                                *)
(***************************************************************************)
TicketActors ==
    { [sub |-> "cust1", custom_role |-> "CUSTOMER"],
      [sub |-> "cust2", custom_role |-> "CUSTOMER"],
      [sub |-> "cust1", custom_role |-> "customer"],
      [sub |-> "agent1", custom_role |-> "AGENT"],
      [sub |-> "agent1", custom_role |-> "technician"],
      [sub |-> "admin1", custom_role |-> "ADMIN"],
      [sub |-> "pa1", custom_role |-> "platform_admin"],
      [sub |-> "cust1"] }

\* The claims dict of an actor (the key custom:role is written custom_role above).
ClaimsOf(a) ==
    [k \in { IF f = "custom_role" THEN "custom:role" ELSE f : f \in DOMAIN a } |->
        IF k = "custom:role" THEN a["custom_role"] ELSE a[k]]

UpdateBodies ==
    { << >>,
      [status |-> "IN_PROGRESS"],
      [status |-> "closed"],
      [status |-> "RESOLVED"],
      [status |-> "resolved", resolution |-> ""],
      [status |-> "resolved", resolution |-> "Fixed"],
      [status |-> "DELETED"],
      [assignedTo |-> "agent1"],
      [priority |-> "high"],
      [priority |-> "urgent"],
      [tags |-> "vip"],
      [tags |-> "[vip]", category |-> "Billing"],
      [ticketId |-> "t2"],
      [status |-> "CLOSED", orgId |-> "org-2"] }

\* create_ticket.py, lines 74-91: the item a new ticket starts as.
NewTicket(org_id, user_id, now) ==
    [orgId |-> org_id, status |-> "OPEN", priority |-> "MEDIUM", category |-> "General",
     createdBy |-> user_id, updatedAt |-> now, updatedBy |-> user_id, assignedTo |-> None,
     tags |-> "[]"]

Init ==
    /\ tickets = [t \in {"t1"} |-> NewTicket("org-1", "cust1", 0)]
    /\ pending = [s \in Slots |-> Idle]
    /\ clock = 0
    /\ request = Idle
    /\ claims = << >>
    /\ ticket = << >>
    /\ orgArg = None
    /\ verdict = NoVerdict
    /\ users = << >>
    /\ comments = << >>
    /\ orgs = << >>

TicketFrame == UNCHANGED <<claims, ticket, orgArg, verdict, users, request, comments, orgs>>

\* Requests are numbered in the order in which they arrive.
Arrives(s) ==
    pending[s].pc = "idle" /\ \A r \in DOMAIN pending : r < s => pending[r].pc # "idle"

\* update_ticket.handler up to and including validation (lines 49-93).
UpdateTicketRead(s, c, ticket_id, body) ==
    /\ Arrives(s)
    /\ LET user_id == extract_user_id(c)
           user_role == extract_user_role(c)
           existing == tickets[ticket_id]
           respond(code, err) ==
               pending' = [pending EXCEPT ![s] = create_response("update_ticket", code, err)]
       IN IF ~Truthy(ticket_id) THEN respond(400, "Ticket ID is required")
          ELSE IF DOMAIN body = {} THEN respond(400, "Update data is required")
          ELSE IF ticket_id \notin DOMAIN tickets THEN respond(404, "Ticket not found")
          ELSE IF ~is_authorized_to_update(existing, user_id, user_role)
          THEN respond(403, "You are not authorized to update this ticket")
          ELSE IF validate_update_fields(body, existing) # None
          THEN respond(400, validate_update_fields(body, existing))
          ELSE pending' = [pending EXCEPT ![s] =
                     [pc |-> "update_item", ticket_id |-> ticket_id, body |-> body,
                      user_id |-> user_id, user_role |-> user_role,
                      readUpdatedAt |-> Get(existing, "updatedAt")]]
    /\ UNCHANGED <<tickets, clock>>
    /\ TicketFrame

\* update_ticket.handler, lines 95-118: update_item under attribute_exists(ticketId).
UpdateTicketWrite(s) ==
    /\ pending[s].pc = "update_item"
    /\ LET p == pending[s]
           now == clock + 1
           sets == build_update_expression(p.body, p.user_id, now)
       IN IF p.ticket_id \in DOMAIN tickets
          THEN /\ tickets' = [tickets EXCEPT ![p.ticket_id] = ApplySet(@, sets)]
               /\ pending' = [pending EXCEPT ![s] = create_response("update_ticket", 200, None)]
          ELSE /\ UNCHANGED tickets
               /\ pending' = [pending EXCEPT ![s] = create_response("update_ticket", 409,
                      "Ticket was modified by another process. Please refresh and try again.")]
    /\ clock' = clock + 1
    /\ TicketFrame

\* delete_ticket.handler up to the authorization check (lines 33-65).
DeleteTicketRead(s, c, ticket_id, hard_delete) ==
    /\ Arrives(s)
    /\ LET user_id == extract_user_id(c)
           user_role == extract_user_role(c)
           respond(code, err) ==
               pending' = [pending EXCEPT ![s] = create_response("delete_ticket", code, err)]
       IN IF ~Truthy(ticket_id) THEN respond(400, "Ticket ID is required")
          ELSE IF ticket_id \notin DOMAIN tickets THEN respond(404, "Ticket not found")
          ELSE IF ~is_authorized_to_delete(tickets[ticket_id], user_id, user_role, hard_delete)
          THEN respond(403, "You are not authorized to delete this ticket")
          ELSE pending' = [pending EXCEPT ![s] =
                     [pc |-> IF hard_delete THEN "delete_item" ELSE "soft_delete",
                      ticket_id |-> ticket_id, user_id |-> user_id, user_role |-> user_role]]
    /\ UNCHANGED <<tickets, clock>>
    /\ TicketFrame

\* delete_ticket.handler, lines 67-115: delete_item, or the update that closes the ticket,
\* both under attribute_exists(ticketId).
DeleteTicketWrite(s) ==
    /\ pending[s].pc \in {"delete_item", "soft_delete"}
    /\ LET p == pending[s]
           now == clock + 1
       IN IF p.ticket_id \notin DOMAIN tickets
          THEN /\ UNCHANGED tickets
               /\ pending' = [pending EXCEPT ![s] =
                      create_response("delete_ticket", 404, "Ticket not found")]
          ELSE /\ tickets' =
                     IF p.pc = "delete_item"
                     THEN DeleteItem(tickets, p.ticket_id)
                     ELSE [tickets EXCEPT ![p.ticket_id] =
                              ApplySet(@, [status |-> "CLOSED", updatedAt |-> now,
                                           updatedBy |-> p.user_id])]
               /\ pending' = [pending EXCEPT ![s] = create_response("delete_ticket", 204, None)]
    /\ clock' = clock + 1
    /\ TicketFrame

\* get_ticket.is_authorized
is_authorized(t, user_id, user_role) ==
    IF user_role \in {"ADMIN", "AGENT"} THEN TRUE
    ELSE IF user_role = "CUSTOMER" THEN Get(t, "createdBy") = user_id
    ELSE FALSE

\* get_ticket.handler (lines 30-68): one get_item, nothing written.
GetTicket(s, c, ticket_id) ==
    /\ Arrives(s)
    /\ LET user_id == extract_user_id(c)
           user_role == extract_user_role(c)
           respond(code, err) ==
               pending' = [pending EXCEPT ![s] = create_response("get_ticket", code, err)]
       IN IF ~Truthy(ticket_id) THEN respond(400, "Ticket ID is required")
          ELSE IF ticket_id \notin DOMAIN tickets THEN respond(404, "Ticket not found")
          ELSE IF ~is_authorized(tickets[ticket_id], user_id, user_role)
          THEN respond(403, "You are not authorized to view this ticket")
          ELSE respond(200, None)
    /\ UNCHANGED <<tickets, clock>>
    /\ TicketFrame

Next ==
    \/ \E s \in Slots, a \in TicketActors, id \in TicketIds \cup {None}, b \in UpdateBodies :
          UpdateTicketRead(s, ClaimsOf(a), id, b)
    \/ \E s \in Slots : UpdateTicketWrite(s)
    \/ \E s \in Slots, a \in TicketActors, id \in TicketIds \cup {None}, h \in BOOLEAN :
          DeleteTicketRead(s, ClaimsOf(a), id, h)
    \/ \E s \in Slots : DeleteTicketWrite(s)

Spec == Init /\ [][Next]_vars

(***************************************************************************)
(* update_user_role.py / get_user_me.py: the users table                   *)
(*                                                                         *)
(* An item keeps role and orgId, the two attributes the role rules read.   *)
(* Requests are served one at a time: a handler runs as one step and       *)
(* leaves its event and response in request until the response is          *)
(* returned.                                                               *)
(***************************************************************************)
ScanFailedCount == 999
ASSIGNABLE_ROLES == {"technician", "org_admin", "platform_admin", "admin", "agent"}
valid_roles == {"platform_admin", "org_admin", "technician", "customer"}

\* scan_ok is FALSE when users_table.scan raises.
count_platform_admins(table, scan_ok) ==
    IF scan_ok
    THEN Cardinality({ u \in DOMAIN table : Get(table[u], "role") = "platform_admin" })
    ELSE ScanFailedCount

\* Lines 72-95 without the test that refuses platform_admin as the new role.
org_admin_checks_mutNoPromotionCheck(user, target_user, target_user_id, new_role, new_org_id) ==
    IF is_platform_admin(user) THEN None
    ELSE IF Get(target_user, "orgId") # user.org_id
    THEN "You can only manage users in your organization"
    ELSE IF Lower(GetOr(target_user, "role", "")) = "org_admin" /\ target_user_id # user.user_id
    THEN "You cannot change another organization admin's role"
    ELSE IF Truthy(new_org_id) /\ new_org_id # user.org_id
    THEN "You can only assign users to your own organization"
    ELSE None

\* Lines 72-95 without the test that protects another organization admin.
org_admin_checks_mutNoPeerCheck(user, target_user, target_user_id, new_role, new_org_id) ==
    IF is_platform_admin(user) THEN None
    ELSE IF Get(target_user, "orgId") # user.org_id
    THEN "You can only manage users in your organization"
    ELSE IF new_role = "platform_admin"
    THEN "Only platform administrators can grant platform admin access"
    ELSE IF Truthy(new_org_id) /\ new_org_id # user.org_id
    THEN "You can only assign users to your own organization"
    ELSE None

\* update_user_role.handler, lines 72-95: the 403 message, or None when the checks pass.
org_admin_checks(user, target_user, target_user_id, new_role, new_org_id) ==
    IF is_platform_admin(user) THEN None
    ELSE IF Get(target_user, "orgId") # user.org_id
    THEN "You can only manage users in your organization"
    ELSE IF new_role = "platform_admin"
    THEN "Only platform administrators can grant platform admin access"
    ELSE IF Lower(GetOr(target_user, "role", "")) = "org_admin" /\ target_user_id # user.user_id
    THEN "You cannot change another organization admin's role"
    ELSE IF Truthy(new_org_id) /\ new_org_id # user.org_id
    THEN "You can only assign users to your own organization"
    ELSE None

\* The last-admin test with an off-by-one threshold.
removes_last_platform_admin_mutOffByOne(target_user, new_role, platform_admin_count) ==
    /\ Lower(GetOr(target_user, "role", "")) = "platform_admin"
    /\ new_role # "platform_admin"
    /\ platform_admin_count < 1

\* update_user_role.handler, lines 97-103.
removes_last_platform_admin(target_user, new_role, platform_admin_count) ==
    /\ Lower(GetOr(target_user, "role", "")) = "platform_admin"
    /\ new_role # "platform_admin"
    /\ platform_admin_count <= 1

\* update_user_role.handler, lines 105-117: the SET clause, field -> new value.
role_update_parts(new_role, new_org_id) ==
    [f \in (IF Truthy(new_role) THEN {"role"} ELSE {})
           \cup (IF new_org_id # None THEN {"orgId"} ELSE {}) |->
        IF f = "role" THEN new_role
        ELSE IF Truthy(new_org_id) THEN new_org_id ELSE None]

PutItem(table, key, item) ==
    [k \in DOMAIN table \cup {key} |-> IF k = key THEN item ELSE table[k]]

\* get_user_me.create_user_record
create_user_record(user) == [role |-> user.role, orgId |-> user.org_id]

\* get_user_me.sync_user_data: the SET clause, field -> new value (role and orgId).
sync_user_data(user, existing_data) ==
    [f \in (IF user.role # Get(existing_data, "role") THEN {"role"} ELSE {})
           \cup (IF Truthy(user.org_id) /\ user.org_id # Get(existing_data, "orgId")
                 THEN {"orgId"} ELSE {}) |->
        IF f = "role" THEN user.role ELSE user.org_id]

(***************************************************************************)
(* Requests sent to the two user handlers                                  *)
(***************************************************************************)
UserIds == {"u1", "u2"}

UserClaimSets ==
    { c \in Dicts([k \in {"sub", "custom:role", "custom:orgId"} |->
                      CASE k = "sub" -> UserIds
                        [] k = "custom:role" -> {"platform_admin", "ORG_ADMIN", "technician"}
                        [] k = "custom:orgId" -> OrgIds]) : "sub" \in DOMAIN c }

\* Identity claims whose role is none of the four tiers.
UnknownRoleClaimSets ==
    { ClaimsFor("u1", "SuperUser", "org-1"), ClaimsFor("u2", "AGENT", "org-2") }

RoleBodies ==
    Dicts([k \in {"role", "orgId"} |->
              CASE k = "role" -> {"PLATFORM_ADMIN", "org_admin", "customer", "SuperUser"}
                [] k = "orgId" -> {"", "org-2"}])

UserItems == [role : valid_roles, orgId : OrgIds \cup {None}]

UserTables == UNION { [S -> UserItems] : S \in SUBSET UserIds }

UserFrame == UNCHANGED <<claims, ticket, orgArg, verdict, tickets, pending, clock,
                         comments, orgs>>

\* The users table holds records, at least one of them a platform_admin.
UsersInit ==
    /\ users \in { t \in UserTables : \E u \in DOMAIN t : t[u].role = "platform_admin" }
    /\ request = Idle
    /\ claims = << >>
    /\ ticket = << >>
    /\ orgArg = None
    /\ verdict = NoVerdict
    /\ tickets = << >>
    /\ pending = << >>
    /\ clock = 0
    /\ comments = << >>
    /\ orgs = << >>

\* The response of a handler, kept with the event it answers and the record it fetched.
Responded(op, c, target_user_id, body, code, err, target_user) ==
    request' = [pc |-> "done", op |-> op, claims |-> c, userId |-> target_user_id,
                body |-> body, code |-> code, error |-> err, target_user |-> target_user]

\* update_user_role.handler (lines 33-147), the store calls succeeding.
UpdateUserRole(c, target_user_id, body) ==
    /\ request.pc = "idle"
    /\ LET user == extract_user_from_event(c)
           target_user == users[target_user_id]
           new_role == Lower(GetOr(body, "role", ""))
           new_org_id == Get(body, "orgId")
           denial == org_admin_checks(user, target_user, target_user_id, new_role, new_org_id)
           parts == role_update_parts(new_role, new_org_id)
           deny(code, err, t) ==
               /\ Responded("update_user_role", c, target_user_id, body, code, err, t)
               /\ UNCHANGED users
       IN IF ~is_admin(user)
          THEN deny(403, "Only administrators can update user roles", << >>)
          ELSE IF ~Truthy(target_user_id) THEN deny(400, "User ID is required", << >>)
          ELSE IF target_user_id \notin DOMAIN users THEN deny(404, "User not found", << >>)
          ELSE IF Truthy(new_role) /\ new_role \notin valid_roles
          THEN deny(400, "Invalid role", target_user)
          ELSE IF denial # None THEN deny(403, denial, target_user)
          ELSE IF removes_last_platform_admin(target_user, new_role,
                                              count_platform_admins(users, TRUE))
          THEN deny(400, "Cannot remove the last platform administrator", target_user)
          ELSE IF DOMAIN parts = {} THEN deny(400, "No valid fields to update", target_user)
          ELSE /\ users' = [users EXCEPT ![target_user_id] = ApplySet(@, parts)]
               /\ Responded("update_user_role", c, target_user_id, body, 200, None,
                            target_user)
    /\ UserFrame

\* get_user_me.handler (lines 32-68).
GetUserMe(c) ==
    /\ request.pc = "idle"
    /\ LET user == extract_user_from_event(c) IN
       IF user.user_id \in DOMAIN users
       THEN /\ users' = [users EXCEPT ![user.user_id] =
                            ApplySet(@, sync_user_data(user, users[user.user_id]))]
            /\ Responded("get_user_me", c, None, << >>, 200, None, users[user.user_id])
       ELSE /\ users' = PutItem(users, user.user_id, create_user_record(user))
            /\ Responded("get_user_me", c, None, << >>, 200, None, << >>)
    /\ UserFrame

\* users_table.scan(FilterExpression): the matching items in key order, each with its key.
UserKeyOrder == <<"u1", "u2">>
ScanUsers(table, matching) ==
    LET keys == SelectSeq(UserKeyOrder, LAMBDA u : u \in DOMAIN table /\ u \in matching)
    IN [i \in 1..Len(keys) |-> ApplySet(table[keys[i]], [userId |-> keys[i]])]

\* list_users.get_target_org_id and get_technicians.get_target_org_id
get_target_org_id(user, params) ==
    IF is_platform_admin(user) THEN Get(params, "orgId") ELSE user.org_id

\* list_users.build_filter_expression, as the predicate the scan applies; with no
\* condition the scan is unfiltered.
list_users_filter(params, target_org_id, item) ==
    /\ Truthy(target_org_id) => Get(item, "orgId") = target_org_id
    /\ Truthy(Get(params, "role")) => Get(item, "role") = Lower(params["role"])

\* get_technicians.build_filter_expression
technicians_filter(target_org_id, item) ==
    /\ Get(item, "role") \in ASSIGNABLE_ROLES
    /\ Truthy(target_org_id) => Get(item, "orgId") = target_org_id

\* list_users.get_user_safe_data
get_user_safe_data(user) == [userId |-> user.user_id, role |-> user.role, orgId |-> user.org_id]

ListParams ==
    Dicts([k \in {"orgId", "role"} |->
              CASE k = "orgId" -> {"org-2"} [] k = "role" -> {"TECHNICIAN"}])

Listed(op, c, params, code, err, found) ==
    request' = [pc |-> "done", op |-> op, claims |-> c, params |-> params, code |-> code,
                error |-> err, users |-> found]

\* list_users.handler (lines 34-76); no limit is sent and the items carry no email, so
\* the sort by email and the slice keep the scan order.
ListUsers(c, params) ==
    /\ request.pc = "idle"
    /\ LET user == extract_user_from_event(c)
           target_org_id == get_target_org_id(user, params)
       IN IF is_customer(user)
          THEN Listed("list_users", c, params, 200, None, <<get_user_safe_data(user)>>)
          ELSE Listed("list_users", c, params, 200, None,
                      ScanUsers(users, { u \in DOMAIN users :
                                   list_users_filter(params, target_org_id, users[u]) }))
    /\ UNCHANGED users
    /\ UserFrame

\* get_technicians.handler (lines 31-78).
GetTechnicians(c, params) ==
    /\ request.pc = "idle"
    /\ LET user == extract_user_from_event(c)
           target_org_id == get_target_org_id(user, params)
       IN IF ~is_agent(user)
          THEN Listed("get_technicians", c, params, 403,
                      "You do not have permission to view technicians", << >>)
          ELSE Listed("get_technicians", c, params, 200, None,
                      ScanUsers(users, { u \in DOMAIN users :
                                   technicians_filter(target_org_id, users[u]) }))
    /\ UNCHANGED users
    /\ UserFrame

\* The response has been returned; the next request is served.
ReturnResponse ==
    /\ request.pc = "done"
    /\ request' = Idle
    /\ UNCHANGED users
    /\ UserFrame

UsersNext ==
    \/ \E c \in UserClaimSets, t \in UserIds, b \in RoleBodies : UpdateUserRole(c, t, b)
    \/ \E c \in UserClaimSets : GetUserMe(c)
    \/ \E c \in UserClaimSets \cup UnknownRoleClaimSets, q \in ListParams : ListUsers(c, q)
    \/ \E c \in UserClaimSets, q \in ListParams : GetTechnicians(c, q)
    \/ ReturnResponse

UsersSpec == UsersInit /\ [][UsersNext]_vars

(***************************************************************************)
(* create_comment.py, list_comments.py, assign_ticket.py                   *)
(***************************************************************************)
MaxWorkflowRequests == 2
WorkflowSlots == 1..MaxWorkflowRequests

\* str.strip() on the texts sent.
StripTable ==
    [s \in {"  ", " hi ", " acme "} |->
        CASE s = "  " -> "" [] s = " hi " -> "hi" [] s = " acme " -> "acme"]
Strip(x) == IF x \in DOMAIN StripTable THEN StripTable[x] ELSE x

\* DynamoDB update_item without a ConditionExpression: the item is created when absent.
Upsert(table, key, sets) ==
    IF key \in DOMAIN table
    THEN [table EXCEPT ![key] = ApplySet(@, sets)]
    ELSE PutItem(table, key, sets)

\* create_comment.handler, lines 46-48: the role of the caller's record in the users table.
stored_user_role(table, user_id) ==
    IF user_id \in DOMAIN table THEN GetOr(table[user_id], "role", "CUSTOMER") ELSE "CUSTOMER"

\* create_comment.handler, lines 50-57.
has_comment_access(t, user_id, user_role) ==
    \/ Get(t, "createdBy") = user_id
    \/ Get(t, "assignedTo") = user_id
    \/ user_role \in {"TECH", "ADMIN"}

\* create_comment.handler, lines 78-81.
coerce_is_internal(is_internal, user_role) ==
    IF is_internal /\ user_role = "CUSTOMER" THEN FALSE ELSE is_internal

\* create_comment.handler, lines 87-98: the stored item (attachments are not sent).
new_comment(ticket_id, comment_id, content, user_id, user_role, is_internal, now) ==
    [ticketId |-> ticket_id, commentId |-> comment_id, content |-> content,
     authorId |-> user_id, authorRole |-> user_role, isInternal |-> is_internal,
     createdAt |-> now]

\* list.sort(key=createdAt): a stable insertion sort.
RECURSIVE InsertByCreatedAt(_, _)
InsertByCreatedAt(sorted, x) ==
    IF sorted = << >> THEN <<x>>
    ELSE IF sorted[Len(sorted)].createdAt <= x.createdAt THEN Append(sorted, x)
    ELSE Append(InsertByCreatedAt(SubSeq(sorted, 1, Len(sorted) - 1), x), sorted[Len(sorted)])

RECURSIVE SortByCreatedAt(_)
SortByCreatedAt(items) ==
    IF items = << >> THEN << >>
    ELSE InsertByCreatedAt(SortByCreatedAt(SubSeq(items, 1, Len(items) - 1)),
                           items[Len(items)])

IsOfTicket(ticket_id, x) == x.ticketId = ticket_id
IsNotInternal(x) == ~x.isInternal

\* A listing that forgets to drop the internal notes.
visible_comments_mutNoFilter(user, ticket_id, table) ==
    SortByCreatedAt(SelectSeq(table, LAMBDA x : IsOfTicket(ticket_id, x)))

\* list_comments.handler, lines 60-79: scan by ticketId, drop internal notes for
\* callers who are not agents, sort by createdAt.
visible_comments(user, ticket_id, table) ==
    LET found == SelectSeq(table, LAMBDA x : IsOfTicket(ticket_id, x))
        shown == IF ~is_agent(user) THEN SelectSeq(found, IsNotInternal) ELSE found
    IN SortByCreatedAt(shown)

(***************************************************************************)
(* Requests sent to the comment and assignment handlers, interleaved with  *)
(* update_ticket and delete_ticket requests                                *)
(***************************************************************************)
WorkflowActors ==
    { ClaimsFor("cust1", "customer", "org-1"),
      ClaimsFor("cust2", "customer", "org-1"),
      ClaimsFor("tech1", "technician", "org-1"),
      ClaimsFor("tech2", "TECHNICIAN", "org-2"),
      ClaimsFor("admin1", "ADMIN", "org-1"),
      ClaimsFor("pa1", "platform_admin", "org-1") }

CommentBodies ==
    { [content |-> " hi "],
      [content |-> "hi", isInternal |-> TRUE],
      [content |-> "hi", isInternal |-> FALSE],
      [content |-> "  ", isInternal |-> TRUE] }

AssignBodies == { << >>, [assignedTo |-> "tech1"], [assignedTo |-> "tech2"],
                  [assignedTo |-> "cust1"], [assignedTo |-> "ghost"] }

WorkflowUpdateBodies == { [status |-> "closed"], [status |-> "CLOSED", orgId |-> "org-2"] }

WorkflowUsers ==
    [u \in {"cust1", "tech1", "tech2"} |->
        CASE u = "cust1" -> [role |-> "customer", orgId |-> "org-1"]
          [] u = "tech1" -> [role |-> "technician", orgId |-> "org-1"]
          [] u = "tech2" -> [role |-> "technician", orgId |-> "org-2"]]

\* The tickets as create_ticket stored them.
WorkflowTickets == [t \in {"t1"} |-> NewTicket("org-1", "cust1", 0)]

WorkflowInit ==
    /\ tickets = WorkflowTickets
    /\ users = WorkflowUsers
    /\ comments = << >>
    /\ pending = [s \in WorkflowSlots |-> Idle]
    /\ clock = 0
    /\ request = Idle
    /\ claims = << >>
    /\ ticket = << >>
    /\ orgArg = None
    /\ verdict = NoVerdict
    /\ orgs = << >>

WorkflowFrame == UNCHANGED <<claims, ticket, orgArg, verdict, users, request, orgs>>

\* create_comment.handler up to the construction of the comment (lines 33-81).
CreateCommentRead(s, c, ticket_id, body) ==
    /\ Arrives(s)
    /\ LET user == extract_user_from_event(c)
           user_role == stored_user_role(users, user.user_id)
           content == Strip(GetOr(body, "content", ""))
           respond(code, err) ==
               pending' = [pending EXCEPT ![s] = create_response("create_comment", code, err)]
       IN IF ~Truthy(ticket_id) THEN respond(400, "Ticket ID is required")
          ELSE IF ticket_id \notin DOMAIN tickets THEN respond(404, "Ticket not found")
          ELSE IF ~has_comment_access(tickets[ticket_id], user.user_id, user_role)
          THEN respond(403, "You do not have access to this ticket")
          ELSE IF ~Truthy(content) THEN respond(400, "Comment content is required")
          ELSE pending' = [pending EXCEPT ![s] =
                     [pc |-> "put_comment", ticket_id |-> ticket_id, user |-> user,
                      user_role |-> user_role, content |-> content,
                      is_internal |-> coerce_is_internal(GetOr(body, "isInternal", FALSE),
                                                         user_role)]]
    /\ UNCHANGED <<tickets, comments, clock>>
    /\ WorkflowFrame

\* create_comment.handler, lines 83-110: put_item of the comment, then an
\* unconditional update_item of the ticket's timestamps.
CreateCommentWrite(s) ==
    /\ pending[s].pc = "put_comment"
    /\ LET p == pending[s]
           now == clock + 1
           item == new_comment(p.ticket_id, Len(comments) + 1, p.content, p.user.user_id,
                               p.user_role, p.is_internal, now)
       IN /\ comments' = Append(comments, item)
          /\ tickets' = Upsert(tickets, p.ticket_id, [updatedAt |-> now, lastCommentAt |-> now])
          /\ pending' = [pending EXCEPT ![s] =
                 [pc |-> "done", op |-> "create_comment", code |-> 201, error |-> None,
                  comment |-> item, user |-> p.user, ticket_id |-> p.ticket_id]]
    /\ clock' = clock + 1
    /\ WorkflowFrame

\* list_comments.handler (lines 42-84).
ListComments(s, c, ticket_id) ==
    /\ Arrives(s)
    /\ LET user == extract_user_from_event(c)
           respond(code, err) ==
               pending' = [pending EXCEPT ![s] = create_response("list_comments", code, err)]
       IN IF ~Truthy(ticket_id) THEN respond(400, "Ticket ID is required")
          ELSE IF ticket_id \notin DOMAIN tickets THEN respond(404, "Ticket not found")
          ELSE IF ~can_access_ticket(user, tickets[ticket_id])
          THEN respond(403, "You do not have permission to view comments on this ticket")
          ELSE pending' = [pending EXCEPT ![s] =
                     [pc |-> "done", op |-> "list_comments", code |-> 200, error |-> None,
                      user |-> user, ticket_id |-> ticket_id,
                      comments |-> visible_comments(user, ticket_id, comments)]]
    /\ UNCHANGED <<tickets, comments, clock>>
    /\ WorkflowFrame

\* assign_ticket.handler up to the role check of the assignee (lines 35-85).
AssignTicketRead(s, c, ticket_id, body) ==
    /\ Arrives(s)
    /\ LET user == extract_user_from_event(c)
           t == tickets[ticket_id]
           assigned_to == Get(body, "assignedTo")
           assignee == users[assigned_to]
           respond(code, err) ==
               pending' = [pending EXCEPT ![s] = create_response("assign_ticket", code, err)]
       IN IF ~Truthy(ticket_id) THEN respond(400, "Ticket ID is required")
          ELSE IF ticket_id \notin DOMAIN tickets THEN respond(404, "Ticket not found")
          ELSE IF ~can_assign_ticket(user, t)
          THEN respond(403, "You do not have permission to assign this ticket")
          ELSE IF ~Truthy(assigned_to) THEN respond(400, "assignedTo (user ID) is required")
          ELSE IF assigned_to \notin DOMAIN users THEN respond(404, "Assignee user not found")
          ELSE IF /\ ~is_platform_admin(user)
                  /\ Truthy(Get(t, "orgId"))
                  /\ Get(assignee, "orgId") # Get(t, "orgId")
          THEN respond(400, "Cannot assign ticket to user outside the organization")
          ELSE IF Lower(GetOr(assignee, "role", "customer")) \notin ASSIGNABLE_ROLES
          THEN respond(400, "Tickets can only be assigned to technicians or administrators")
          ELSE pending' = [pending EXCEPT ![s] =
                     [pc |-> "assign_update", ticket_id |-> ticket_id, user |-> user,
                      assigned_to |-> assigned_to]]
    /\ UNCHANGED <<tickets, comments, clock>>
    /\ WorkflowFrame

\* assign_ticket.handler, lines 92-114: update_item without a ConditionExpression.
AssignTicketWrite(s) ==
    /\ pending[s].pc = "assign_update"
    /\ LET p == pending[s]
           now == clock + 1
       IN /\ tickets' = Upsert(tickets, p.ticket_id,
                               [assignedTo |-> p.assigned_to, assignedToName |-> "Unknown",
                                status |-> "IN_PROGRESS", updatedAt |-> now,
                                updatedBy |-> p.user.user_id])
          /\ pending' = [pending EXCEPT ![s] =
                 [pc |-> "done", op |-> "assign_ticket", code |-> 200, error |-> None,
                  ticket_id |-> p.ticket_id]]
    /\ clock' = clock + 1
    /\ UNCHANGED comments
    /\ WorkflowFrame

WorkflowNext ==
    \/ \E s \in WorkflowSlots, c \in WorkflowActors, id \in TicketIds, b \in CommentBodies :
          CreateCommentRead(s, c, id, b)
    \/ \E s \in WorkflowSlots : CreateCommentWrite(s)
    \/ \E s \in WorkflowSlots, c \in WorkflowActors, id \in TicketIds : ListComments(s, c, id)
    \/ \E s \in WorkflowSlots, c \in WorkflowActors, id \in TicketIds, b \in AssignBodies :
          AssignTicketRead(s, c, id, b)
    \/ \E s \in WorkflowSlots : AssignTicketWrite(s)
    \/ \E s \in WorkflowSlots, c \in WorkflowActors, id \in TicketIds,
          b \in WorkflowUpdateBodies : UpdateTicketRead(s, c, id, b)
    \/ \E s \in WorkflowSlots : UpdateTicketWrite(s)
    \/ \E s \in WorkflowSlots, c \in WorkflowActors, id \in TicketIds, h \in BOOLEAN :
          DeleteTicketRead(s, c, id, h)
    \/ \E s \in WorkflowSlots : DeleteTicketWrite(s)
    \/ \E s \in WorkflowSlots, c \in WorkflowActors, id \in TicketIds : GetTicket(s, c, id)

WorkflowSpec == WorkflowInit /\ [][WorkflowNext]_vars

(***************************************************************************)
(* organizations/create_organization.py                                    *)
(***************************************************************************)
MaxOrgRequests == 2
OrgSlots == 1..MaxOrgRequests

\* create_organization.get_user_claims: is_none marks the None returned when the event
\* carries no claims.
get_user_claims(c) ==
    IF DOMAIN c = {} THEN [is_none |-> TRUE]
    ELSE [is_none |-> FALSE, userId |-> GetOr(c, "sub", ""),
          role |-> GetOr(c, "custom:role", ""), orgId |-> GetOr(c, "custom:orgId", "")]

\* A role test that also lets organization admins through.
org_is_platform_admin_mutAnyAdmin(user_claims) ==
    IF user_claims.is_none THEN FALSE ELSE user_claims.role \in {"platform_admin", "org_admin"}

\* create_organization.is_platform_admin
org_is_platform_admin(user_claims) ==
    IF user_claims.is_none THEN FALSE ELSE user_claims.role = "platform_admin"

\* create_organization.is_slug_unique: a scan for the slug.
is_slug_unique(table, slug) == \A o \in DOMAIN table : table[o].slug # slug

\* all(c.isalnum() or c == '-' for c in slug) on the slugs sent.
SlugsWithOtherCharacters == {"bad_slug"}
is_valid_slug_format(slug) == slug \notin SlugsWithOtherCharacters

\* create_organization.handler, lines 120-128 (no theme is sent).
new_organization(name, slug, user_id, now) ==
    [name |-> name, slug |-> slug, status |-> "active", createdAt |-> now,
     updatedAt |-> now, createdBy |-> user_id]

OrgActors ==
    { << >>,
      [k \in {"custom:role"} |-> "platform_admin"],
      [k \in {"sub", "custom:role"} |-> IF k = "sub" THEN "pa1" ELSE "platform_admin"],
      [k \in {"sub", "custom:role"} |-> IF k = "sub" THEN "pa2" ELSE "PLATFORM_ADMIN"],
      [k \in {"sub"} |-> "cust1"],
      ClaimsFor("oa1", "org_admin", "org-1"),
      ClaimsFor("tech1", "technician", "org-1"),
      ClaimsFor("cust1", "customer", "org-1"),
      ClaimsFor("x1", "SuperUser", "org-1") }

OrgBodies ==
    { << >>, [name |-> "Acme"], [name |-> "  ", slug |-> "acme"],
      [name |-> "Acme", slug |-> "acme"], [name |-> "Acme Two", slug |-> "Acme"],
      [name |-> "Acme Three", slug |-> " acme "], [name |-> "Beta", slug |-> "beta"],
      [name |-> "Bad", slug |-> "bad_slug"] }

OrgsInit ==
    /\ orgs = << >>
    /\ pending = [s \in OrgSlots |-> Idle]
    /\ clock = 0
    /\ request = Idle
    /\ claims = << >>
    /\ ticket = << >>
    /\ orgArg = None
    /\ verdict = NoVerdict
    /\ tickets = << >>
    /\ users = << >>
    /\ comments = << >>

OrgFrame == UNCHANGED <<claims, ticket, orgArg, verdict, tickets, users, comments, request>>

\* create_organization.handler up to and including the uniqueness scan (lines 84-114).
CreateOrganizationRead(s, c, body) ==
    /\ Arrives(s)
    /\ LET user_claims == get_user_claims(c)
           name == Strip(GetOr(body, "name", ""))
           slug == Lower(Strip(GetOr(body, "slug", "")))
           respond(code, err) ==
               pending' = [pending EXCEPT ![s] =
                              create_response("create_organization", code, err)]
       IN IF user_claims.is_none THEN respond(401, "Unauthorized")
          ELSE IF ~Truthy(user_claims.userId) THEN respond(401, "Unauthorized")
          ELSE IF ~org_is_platform_admin(user_claims)
          THEN respond(403, "Only platform administrators can create organizations")
          ELSE IF ~Truthy(name) THEN respond(400, "Organization name is required")
          ELSE IF ~Truthy(slug) THEN respond(400, "Organization slug is required")
          ELSE IF ~is_valid_slug_format(slug)
          THEN respond(400, "Slug must contain only letters, numbers, and hyphens")
          ELSE IF ~is_slug_unique(orgs, slug)
          THEN respond(409, "Organization with slug already exists")
          ELSE pending' = [pending EXCEPT ![s] =
                     [pc |-> "put_item", user_claims |-> user_claims, name |-> name,
                      slug |-> slug]]
    /\ UNCHANGED <<orgs, clock>>
    /\ OrgFrame

\* create_organization.handler, lines 116-138: put_item under a fresh orgId.
CreateOrganizationWrite(s) ==
    /\ pending[s].pc = "put_item"
    /\ LET p == pending[s]
           now == clock + 1
           org_id == clock + 1
       IN /\ orgs' = PutItem(orgs, org_id,
                             new_organization(p.name, p.slug, p.user_claims.userId, now))
          /\ pending' = [pending EXCEPT ![s] =
                 [pc |-> "done", op |-> "create_organization", code |-> 201,
                  error |-> None, orgId |-> org_id, role |-> p.user_claims.role]]
    /\ clock' = clock + 1
    /\ OrgFrame

OrgsNext ==
    \/ \E s \in OrgSlots, c \in OrgActors, b \in OrgBodies : CreateOrganizationRead(s, c, b)
    \/ \E s \in OrgSlots : CreateOrganizationWrite(s)

OrgsSpec == OrgsInit /\ [][OrgsNext]_vars

(***************************************************************************)
(* list_tickets.py                                                         *)
(***************************************************************************)
DefaultLimit == 50
MaxLimit == 100

\* int() of the limit texts sent; NotAnInt stands for the ValueError.
NotAnInt == -1
IntTable == [s \in {"1", "2", "101", "abc"} |->
                CASE s = "1" -> 1 [] s = "2" -> 2 [] s = "101" -> 101 [] s = "abc" -> NotAnInt]

\* Text is a sequence of character codes (ASCII), bytes and characters alike.
Codes ==
    [x \in {"ticketId", "status", "assignedTo", "t1", "t2", "OPEN", "CLOSED", "tech1"} |->
        CASE x = "ticketId" -> <<116, 105, 99, 107, 101, 116, 73, 100>>
          [] x = "status" -> <<115, 116, 97, 116, 117, 115>>
          [] x = "assignedTo" -> <<97, 115, 115, 105, 103, 110, 101, 100, 84, 111>>
          [] x = "t1" -> <<116, 49>>
          [] x = "t2" -> <<116, 50>>
          [] x = "OPEN" -> <<79, 80, 69, 78>>
          [] x = "CLOSED" -> <<67, 76, 79, 83, 69, 68>>
          [] x = "tech1" -> <<116, 101, 99, 104, 49>>]

\* A JSON value is a string, [s |-> text], or a map, [m |-> <<name, value>> pairs in order].
\* json.dumps of a string: quotes around it, a backslash before each quote and backslash.
RECURSIVE encode_string_mutNoEscape(_)
encode_string_mutNoEscape(s) ==
    IF s = << >> THEN << >>
    ELSE <<Head(s)>> \o encode_string_mutNoEscape(Tail(s))

RECURSIVE encode_string(_)
encode_string(s) ==
    IF s = << >> THEN << >>
    ELSE (IF Head(s) \in {34, 92} THEN <<92, Head(s)>> ELSE <<Head(s)>>)
         \o encode_string(Tail(s))

\* json.dumps with the default separators ", " and ": ".
RECURSIVE json_dumps(_)
RECURSIVE json_dumps_members(_)
json_dumps(obj) ==
    IF "s" \in DOMAIN obj THEN <<34>> \o encode_string(obj.s) \o <<34>>
    ELSE <<123>> \o json_dumps_members(obj.m) \o <<125>>

json_dumps_members(pairs) ==
    IF pairs = << >> THEN << >>
    ELSE <<34>> \o encode_string(Head(pairs)[1]) \o <<34, 58, 32>> \o json_dumps(Head(pairs)[2])
         \o (IF Len(pairs) > 1 THEN <<44, 32>> ELSE << >>)
         \o json_dumps_members(Tail(pairs))

\* json.loads: a recursive-descent reading of the text; JSONDecodeError for anything else.
JSONDecodeError == [error |-> "JSONDecodeError"]
ParseFailed == [ok |-> FALSE, v |-> << >>, rest |-> << >>]

RECURSIVE SkipSpaces(_)
SkipSpaces(t) == IF t # << >> /\ Head(t) = 32 THEN SkipSpaces(Tail(t)) ELSE t

\* The text of a string literal after its opening quote.
RECURSIVE scan_string(_, _)
scan_string(t, acc) ==
    IF t = << >> THEN ParseFailed
    ELSE IF Head(t) = 34 THEN [ok |-> TRUE, v |-> acc, rest |-> Tail(t)]
    ELSE IF Head(t) = 92
    THEN IF Len(t) < 2 \/ t[2] \notin {34, 92} THEN ParseFailed
         ELSE scan_string(Tail(Tail(t)), Append(acc, t[2]))
    ELSE scan_string(Tail(t), Append(acc, Head(t)))

RECURSIVE parse_value(_)
RECURSIVE parse_members(_, _, _)
parse_value(t) ==
    LET u == SkipSpaces(t)
    IN IF u = << >> THEN ParseFailed
       ELSE IF Head(u) = 34
       THEN LET r == scan_string(Tail(u), << >>)
            IN IF r.ok THEN [ok |-> TRUE, v |-> [s |-> r.v], rest |-> r.rest] ELSE ParseFailed
       ELSE IF Head(u) = 123 THEN parse_members(Tail(u), << >>, TRUE)
       ELSE ParseFailed

\* The members of an object after "{" or after a member; first: no member was read yet.
parse_members(t, acc, first) ==
    LET u == SkipSpaces(t)
    IN IF u = << >> THEN ParseFailed
       ELSE IF Head(u) = 125 THEN [ok |-> TRUE, v |-> [m |-> acc], rest |-> Tail(u)]
       ELSE LET w == IF first THEN u
                     ELSE IF Head(u) = 44 THEN SkipSpaces(Tail(u)) ELSE << >>
            IN IF w = << >> \/ Head(w) # 34 THEN ParseFailed
               ELSE LET k == scan_string(Tail(w), << >>)
                        c == IF k.ok THEN SkipSpaces(k.rest) ELSE << >>
                    IN IF c = << >> \/ Head(c) # 58 THEN ParseFailed
                       ELSE LET val == parse_value(Tail(c))
                            IN IF val.ok
                               THEN parse_members(val.rest, Append(acc, <<k.v, val.v>>), FALSE)
                               ELSE ParseFailed

json_loads(text) ==
    LET r == parse_value(text)
    IN IF r.ok /\ SkipSpaces(r.rest) = << >> THEN r.v ELSE JSONDecodeError

\* The base64 alphabet: A-Z, a-z, 0-9, "+", "/"; 61 is the padding "=".
B64Char(i) ==
    IF i < 26 THEN 65 + i ELSE IF i < 52 THEN 71 + i ELSE IF i < 62 THEN i - 4
    ELSE IF i = 62 THEN 43 ELSE 47

B64Index(c) ==
    IF c >= 65 /\ c <= 90 THEN c - 65 ELSE IF c >= 97 /\ c <= 122 THEN c - 71
    ELSE IF c >= 48 /\ c <= 57 THEN c + 4 ELSE IF c = 43 THEN 62 ELSE 63

RECURSIVE b64encode(_)
b64encode(bytes) ==
    IF bytes = << >> THEN << >>
    ELSE LET n == bytes[1] * 65536
                  + (IF Len(bytes) > 1 THEN bytes[2] * 256 ELSE 0)
                  + (IF Len(bytes) > 2 THEN bytes[3] ELSE 0)
         IN <<B64Char(n \div 262144), B64Char((n \div 4096) % 64),
              IF Len(bytes) > 1 THEN B64Char((n \div 64) % 64) ELSE 61,
              IF Len(bytes) > 2 THEN B64Char(n % 64) ELSE 61>>
            \o (IF Len(bytes) > 3 THEN b64encode(SubSeq(bytes, 4, Len(bytes))) ELSE << >>)

RECURSIVE b64decode(_)
b64decode(chars) ==
    IF Len(chars) < 4 THEN << >>
    ELSE LET idx(i) == IF chars[i] = 61 THEN 0 ELSE B64Index(chars[i])
             n == idx(1) * 262144 + idx(2) * 4096 + idx(3) * 64 + idx(4)
             given == IF chars[3] = 61 THEN 1 ELSE IF chars[4] = 61 THEN 2 ELSE 3
         IN SubSeq(<<n \div 65536, (n \div 256) % 256, n % 256>>, 1, given)
            \o b64decode(SubSeq(chars, 5, Len(chars)))

\* list_tickets.encode_cursor and decode_cursor.
encode_cursor(last_key) == b64encode(json_dumps(last_key))
decode_cursor(cursor) == json_loads(b64decode(cursor))

\* The key the store reports for an item: the table key, and the index key of a query.
LastKey(item, index_attr) ==
    [m |-> <<<<Codes["ticketId"], [s |-> Codes[item.ticketId]]>>>>
           \o (IF index_attr = None THEN << >>
               ELSE <<<<Codes[index_attr], [s |-> Codes[item[index_attr]]]>>>>)]

\* The ticket a start key names.
KeyTicketId(key) ==
    LET i == CHOOSE i \in 1..Len(key.m) : key.m[i][1] = Codes["ticketId"]
    IN CHOOSE k \in TicketIds : Codes[k] = key.m[i][2].s

\* The items of the table in key order, each with its key attribute.
RECURSIVE ItemsInKeyOrder(_, _)
ItemsInKeyOrder(table, keys) ==
    IF keys = {} THEN << >>
    ELSE LET k == CHOOSE x \in keys : \A y \in keys : x = y \/ ~(y = "t1")
         IN <<ApplySet(table[k], [ticketId |-> k])>> \o ItemsInKeyOrder(table, keys \ {k})

\* One page of a query or scan: the matching items after ExclusiveStartKey, Limit at most,
\* and LastEvaluatedKey when the limit stopped the read.
Page(items, params, index_attr) ==
    LET after == IF "ExclusiveStartKey" \in DOMAIN params
                 THEN SelectSeq(items, LAMBDA x : x.ticketId = "t2"
                                    /\ KeyTicketId(params["ExclusiveStartKey"]) = "t1")
                 ELSE items
        limit == params["Limit"]
        page == SubSeq(after, 1, IF Len(after) < limit THEN Len(after) ELSE limit)
    IN IF Len(page) = limit
       THEN [Items |-> page, LastEvaluatedKey |-> LastKey(page[Len(page)], index_attr)]
       ELSE [Items |-> page]

\* The parameters of the store call; an absent cursor and an empty one are both << >>.
store_params(limit, cursor) ==
    IF cursor # << >> THEN [Limit |-> limit, ExclusiveStartKey |-> decode_cursor(cursor)]
    ELSE [Limit |-> limit]

\* list_tickets.query_by_status, query_by_assigned_to and scan_all_tickets.
query_by_status(table, status, limit, cursor) ==
    Page(SelectSeq(ItemsInKeyOrder(table, DOMAIN table),
                   LAMBDA x : Get(x, "status") = Upper(status)),
         store_params(limit, cursor), "status")

query_by_assigned_to(table, assigned_to, limit, cursor) ==
    Page(SelectSeq(ItemsInKeyOrder(table, DOMAIN table),
                   LAMBDA x : Get(x, "assignedTo") = assigned_to),
         store_params(limit, cursor), "assignedTo")

scan_all_tickets(table, limit, cursor) ==
    Page(ItemsInKeyOrder(table, DOMAIN table), store_params(limit, cursor), None)

\* list_tickets.filter_tickets_by_role
filter_tickets_by_role(items, user_id, user_role) ==
    IF user_role \in {"ADMIN", "AGENT"} THEN items
    ELSE IF user_role = "CUSTOMER"
    THEN SelectSeq(items, LAMBDA t : Get(t, "createdBy") = user_id)
    ELSE << >>

ListingActors ==
    { ClaimsFor("cust1", "customer", "org-1"),
      ClaimsFor("cust1", "CUSTOMER", "org-1"),
      [k \in {"sub", "custom:orgId"} |-> IF k = "sub" THEN "cust2" ELSE "org-2"],
      ClaimsFor("tech1", "technician", "org-1"),
      ClaimsFor("agent1", "AGENT", "org-1"),
      ClaimsFor("pa1", "platform_admin", "org-1") }

\* Query strings without a cursor; the cursor is added by WithCursor.
ListingQueries ==
    Dicts([k \in {"status", "assignedTo", "limit"} |->
              CASE k = "status" -> {"open"}
                [] k = "assignedTo" -> {"tech1"}
                [] k = "limit" -> {"1", "101", "abc"}])

WithCursor(query_params, cursor) == ApplySet(query_params, [cursor |-> cursor])

\* Cursors a client holds before any page was served.
SentCursors == { encode_cursor(LastKey([ticketId |-> "t1"], None)) }

\* Store keys built from strings and nested maps, for the conversions alone.
KeyTexts == { << >>, <<97>>, <<34>>, <<92>>, <<97, 34>>, <<92, 92>>, <<34, 125>>,
              <<92, 34, 97>>, <<123, 44, 58>> }
KeyValues ==
    { [s |-> x] : x \in KeyTexts }
    \cup { [m |-> <<<<n, [s |-> x]>>>>] : n \in {<<110>>, <<34, 58>>}, x \in KeyTexts }
    \cup { [m |-> << >>] }
CursorKeys ==
    { [m |-> <<<<<<107>>, v>>>>] : v \in KeyValues }
    \cup { [m |-> <<<<<<107>>, v>>, <<<<113, 34>>, [s |-> x]>>>>] :
              v \in KeyValues, x \in {<<97>>, <<92>>, <<97, 97>>} }

ListedTickets ==
    [orgId : OrgIds, createdBy : {"cust1", "cust2"}, status : {"OPEN", "CLOSED"},
     assignedTo : {None, "tech1"}]

ListingInit ==
    /\ tickets \in [TicketIds -> ListedTickets]
    /\ request = Idle
    /\ claims = << >>
    /\ ticket = << >>
    /\ orgArg = None
    /\ verdict = NoVerdict
    /\ pending = << >>
    /\ clock = 0
    /\ users = << >>
    /\ comments = << >>
    /\ orgs = << >>

ListingFrame ==
    UNCHANGED <<claims, ticket, orgArg, verdict, tickets, pending, clock, users, comments,
                orgs>>

\* list_tickets.handler (lines 35-80): the response to one request.
list_tickets_response(c, query_params) ==
    LET status_filter == Get(query_params, "status")
        assigned_to_filter == Get(query_params, "assignedTo")
        limit == IF "limit" \in DOMAIN query_params THEN IntTable[query_params["limit"]]
                 ELSE DefaultLimit
        cursor == GetOr(query_params, "cursor", << >>)
        user_id == extract_user_id(c)
        user_role == extract_user_role(c)
        result == IF Truthy(status_filter)
                  THEN query_by_status(tickets, status_filter, limit, cursor)
                  ELSE IF Truthy(assigned_to_filter)
                  THEN query_by_assigned_to(tickets, assigned_to_filter, limit, cursor)
                  ELSE scan_all_tickets(tickets, limit, cursor)
        respond(code, err, shown) ==
            [pc |-> "done", op |-> "list_tickets", claims |-> c, query |-> query_params,
             code |-> code, error |-> err, tickets |-> shown]
    IN IF limit = NotAnInt THEN respond(400, "Invalid parameter", << >>)
       ELSE IF limit > MaxLimit THEN respond(400, "Limit cannot exceed 100", << >>)
       ELSE ApplySet(
                ApplySet(respond(200, None,
                                 filter_tickets_by_role(result.Items, user_id, user_role)),
                         IF "LastEvaluatedKey" \in DOMAIN result
                         THEN [LastEvaluatedKey |-> result.LastEvaluatedKey,
                               nextCursor |-> encode_cursor(result.LastEvaluatedKey)]
                         ELSE << >>),
                IF cursor # << >>
                THEN [ExclusiveStartKey |-> store_params(limit, cursor).ExclusiveStartKey]
                ELSE << >>)

\* A request with the query string as sent, with or without a cursor held from before.
ListTickets(c, query_params) ==
    /\ request.pc = "idle"
    /\ request' = list_tickets_response(c, query_params)
    /\ ListingFrame

\* The request for the next page: the same actor and filters, and the nextCursor of the
\* response passed back as cursor.
ListNextPage ==
    /\ request.pc = "done"
    /\ request.op = "list_tickets"
    /\ "nextCursor" \in DOMAIN request
    /\ request' = list_tickets_response(request.claims,
                                        WithCursor(request.query, request.nextCursor))
    /\ ListingFrame

\* encode_cursor and decode_cursor applied to a key of any shape.
CursorRoundTrip(last_key) ==
    /\ request.pc = "idle"
    /\ request' = [pc |-> "done", op |-> "cursor", key |-> last_key,
                   cursor |-> encode_cursor(last_key),
                   decoded |-> decode_cursor(encode_cursor(last_key))]
    /\ ListingFrame

ListingNext ==
    \/ \E c \in ListingActors, q \in ListingQueries : ListTickets(c, q)
    \/ \E c \in ListingActors, q \in ListingQueries, k \in SentCursors :
           ListTickets(c, WithCursor(q, k))
    \/ ListNextPage
    \/ \E k \in CursorKeys : CursorRoundTrip(k)
    \/ ReturnResponse

ListingSpec == ListingInit /\ [][ListingNext]_vars

(***************************************************************************)
(* update_user_role as its store calls (RoleRaceSpec, RoleFaultSpec)       *)
(***************************************************************************)
MaxRoleRequests == 2
RoleSlots == 1..MaxRoleRequests

RaceActors ==
    { ClaimsFor("u1", "platform_admin", "org-1"),
      ClaimsFor("u2", "platform_admin", "org-1"),
      ClaimsFor("u1", "org_admin", "org-1") }

RaceBodies ==
    { [role |-> "customer"], [role |-> "PLATFORM_ADMIN"], [orgId |-> "org-2"] }

RaceTables ==
    { t \in [UserIds -> [role : {"platform_admin", "org_admin"}, orgId : {"org-1"}]] :
          \E u \in UserIds : t[u].role = "platform_admin" }

RaceInit ==
    /\ users \in RaceTables
    /\ pending = [s \in RoleSlots |-> Idle]
    /\ request = Idle
    /\ claims = << >>
    /\ ticket = << >>
    /\ orgArg = None
    /\ verdict = NoVerdict
    /\ tickets = << >>
    /\ clock = 0
    /\ comments = << >>
    /\ orgs = << >>

RaceFrame == UNCHANGED <<claims, ticket, orgArg, verdict, tickets, clock, request, comments,
                         orgs>>

\* update_user_role.handler from the start to the org-admin checks (lines 33-95): the
\* target is fetched with get_item and kept for the rest of the request.
UpdateUserRoleRead(s, c, target_user_id, body) ==
    /\ Arrives(s)
    /\ LET user == extract_user_from_event(c)
           target_user == users[target_user_id]
           new_role == Lower(GetOr(body, "role", ""))
           new_org_id == Get(body, "orgId")
           denial == org_admin_checks(user, target_user, target_user_id, new_role, new_org_id)
           respond(code, err) ==
               pending' = [pending EXCEPT ![s] = create_response("update_user_role", code, err)]
       IN IF ~is_admin(user) THEN respond(403, "Only administrators can update user roles")
          ELSE IF ~Truthy(target_user_id) THEN respond(400, "User ID is required")
          ELSE IF target_user_id \notin DOMAIN users THEN respond(404, "User not found")
          ELSE IF Truthy(new_role) /\ new_role \notin valid_roles
          THEN respond(400, "Invalid role")
          ELSE IF denial # None THEN respond(403, denial)
          ELSE pending' = [pending EXCEPT ![s] =
                   [pc |-> "checked", user_id |-> user.user_id,
                    target_user_id |-> target_user_id, target_user |-> target_user,
                    new_role |-> new_role, new_org_id |-> new_org_id]]
    /\ UNCHANGED users
    /\ RaceFrame

\* Lines 97-119: the last-admin check, with the scan of count_platform_admins when the
\* fetched target is a platform_admin and the new role is not; then the SET clause.
UpdateUserRoleCount(s, scan_ok) ==
    /\ pending[s].pc = "checked"
    /\ LET p == pending[s]
           scans == /\ Lower(GetOr(p.target_user, "role", "")) = "platform_admin"
                    /\ p.new_role # "platform_admin"
           platform_admin_count == count_platform_admins(users, scan_ok)
           parts == role_update_parts(p.new_role, p.new_org_id)
           respond(code, err) ==
               pending' = [pending EXCEPT ![s] = create_response("update_user_role", code, err)]
       IN /\ ~scans => scan_ok      \* no scan is made, none can fail
          /\ IF scans /\ removes_last_platform_admin(p.target_user, p.new_role,
                                                     platform_admin_count)
             THEN respond(400, "Cannot remove the last platform administrator")
             ELSE IF DOMAIN parts = {} THEN respond(400, "No valid fields to update")
             ELSE pending' = [pending EXCEPT ![s] =
                      [pc |-> "update_item", user_id |-> p.user_id,
                       target_user_id |-> p.target_user_id, target_user |-> p.target_user,
                       new_role |-> p.new_role, parts |-> parts,
                       scanned |-> scans, scan_ok |-> scan_ok]]
    /\ UNCHANGED users
    /\ RaceFrame

\* Lines 121-140: update_item on the target's key, unconditional.
UpdateUserRoleWrite(s) ==
    /\ pending[s].pc = "update_item"
    /\ LET p == pending[s]
       IN /\ users' = Upsert(users, p.target_user_id, p.parts)
          /\ pending' = [pending EXCEPT ![s] =
                 [pc |-> "done", op |-> "update_user_role", code |-> 200, error |-> None,
                  target_user_id |-> p.target_user_id, target_user |-> p.target_user,
                  new_role |-> p.new_role]]
    /\ RaceFrame

\* Requests that may interleave, every scan answered.
RaceNext ==
    \/ \E s \in RoleSlots, c \in RaceActors, u \in UserIds, b \in RaceBodies :
           UpdateUserRoleRead(s, c, u, b)
    \/ \E s \in RoleSlots : UpdateUserRoleCount(s, TRUE)
    \/ \E s \in RoleSlots : UpdateUserRoleWrite(s)

RoleRaceSpec == RaceInit /\ [][RaceNext]_vars

\* The same requests, the scan of count_platform_admins failing or not.
FaultNext ==
    \/ \E s \in RoleSlots, c \in RaceActors, u \in UserIds, b \in RaceBodies :
           UpdateUserRoleRead(s, c, u, b)
    \/ \E s \in RoleSlots, scan_ok \in BOOLEAN : UpdateUserRoleCount(s, scan_ok)
    \/ \E s \in RoleSlots : UpdateUserRoleWrite(s)

RoleFaultSpec == RaceInit /\ [][FaultNext]_vars

(***************************************************************************)
(* create_ticket (CreateSpec)                                              *)
(***************************************************************************)
MaxCreateRequests == 1

\* create_ticket.get_ticket_org_id with the body's orgId taken from any actor.
get_ticket_org_id_mutAnyRole(user, body) ==
    IF Truthy(Get(body, "orgId")) THEN Get(body, "orgId")
    ELSE user.org_id

\* create_ticket.get_ticket_org_id
get_ticket_org_id(user, body) ==
    IF is_platform_admin(user) /\ Truthy(Get(body, "orgId")) THEN Get(body, "orgId")
    ELSE user.org_id

\* The store calls of sync_user_to_table, the try block alone: fault names the call that
\* raises, and a call that raises writes nothing.
sync_user_calls(table, user, org_id, fault) ==
    IF fault = "get_item" THEN [users |-> table, raised |-> TRUE]
    ELSE IF user.user_id \notin DOMAIN table
    THEN IF fault = "put_item" THEN [users |-> table, raised |-> TRUE]
         ELSE [users |-> PutItem(table, user.user_id, [role |-> user.role, orgId |-> org_id]),
               raised |-> FALSE]
    ELSE IF ~Truthy(Get(table[user.user_id], "orgId")) /\ Truthy(org_id)
    THEN IF fault = "update_item" THEN [users |-> table, raised |-> TRUE]
         ELSE [users |-> [table EXCEPT ![user.user_id] = ApplySet(@, [orgId |-> org_id])],
               raised |-> FALSE]
    ELSE [users |-> table, raised |-> FALSE]

\* sync_user_to_table without its except clause: the exception leaves the function.
sync_user_to_table_mutNoCatch(table, user, org_id, fault) ==
    sync_user_calls(table, user, org_id, fault)

\* create_ticket.sync_user_to_table: whatever is raised is printed and dropped.
sync_user_to_table(table, user, org_id, fault) ==
    [users |-> sync_user_calls(table, user, org_id, fault).users, raised |-> FALSE]

\* create_ticket.handler (lines 31-105): the response, and the two tables after it.
\* An exception that reaches the handler is answered 500.
create_ticket_outcome(c, body, fault, tickets_table, users_table, now) ==
    LET user == extract_user_from_event(c)
        org_id == get_ticket_org_id(user, body)
        sync == sync_user_to_table(users_table, user, org_id, fault)
        title == Strip(GetOr(body, "title", ""))
        description == Strip(GetOr(body, "description", ""))
        priority == Upper(GetOr(body, "priority", "MEDIUM"))
        item == ApplySet(NewTicket(org_id, user.user_id, now),
                         [title |-> title, priority |-> priority])
        outcome(code, err, tt, ut) ==
            [response |-> create_response("create_ticket", code, err),
             tickets |-> tt, users |-> ut]
    IN IF ~Truthy(org_id)
       THEN outcome(400, "Organization ID is required", tickets_table, users_table)
       ELSE IF ~can_access_org(user, org_id)
       THEN outcome(403, "You do not have permission to create tickets in this organization",
                    tickets_table, users_table)
       ELSE IF sync.raised
       THEN outcome(500, "Internal server error", tickets_table, sync.users)
       ELSE IF ~Truthy(title)
       THEN outcome(400, "Title is required", tickets_table, sync.users)
       ELSE IF ~Truthy(description)
       THEN outcome(400, "Description is required", tickets_table, sync.users)
       ELSE IF priority \notin VALID_PRIORITIES
       THEN outcome(400, "Invalid priority", tickets_table, sync.users)
       ELSE outcome(201, None, PutItem(tickets_table, now, item), sync.users)

CreateActors ==
    { ClaimsFor("cust1", "customer", "org-1"),
      [k \in {"sub", "custom:role"} |-> IF k = "sub" THEN "cust2" ELSE "customer"],
      ClaimsFor("admin1", "ORG_ADMIN", "org-2"),
      ClaimsFor("pa1", "platform_admin", "org-1"),
      [k \in {"sub", "custom:role"} |-> IF k = "sub" THEN "pa2" ELSE "platform_admin"],
      << >> }

CreateBodies ==
    { [title |-> "T", description |-> "D"],
      [title |-> "T", description |-> "D", orgId |-> "org-2"],
      [title |-> "T", description |-> "D", orgId |-> ""],
      [title |-> "  ", description |-> "D", orgId |-> "org-2"],
      [title |-> "T", description |-> "D", priority |-> "urgent"],
      [title |-> "T", description |-> "D", priority |-> "high"] }

SyncFaults == {"none", "get_item", "put_item", "update_item"}

\* The users table before the first request: empty, or the customer's record with or
\* without an organization.
CreateUserTables ==
    { << >> }
    \cup { [u \in {"cust1"} |-> [role |-> "customer", orgId |-> o]] : o \in {None, "org-1"} }

CreateInit ==
    /\ tickets = << >>
    /\ users \in CreateUserTables
    /\ request = Idle
    /\ clock = 0
    /\ claims = << >>
    /\ ticket = << >>
    /\ orgArg = None
    /\ verdict = NoVerdict
    /\ pending = << >>
    /\ comments = << >>
    /\ orgs = << >>

CreateFrame == UNCHANGED <<claims, ticket, orgArg, verdict, pending, comments, orgs>>

\* One create_ticket request; the ticket id is fresh, the number of the request.
CreateTicket(c, body, fault) ==
    /\ request.pc = "idle"
    /\ clock < MaxCreateRequests
    /\ LET o == create_ticket_outcome(c, body, fault, tickets, users, clock + 1)
       IN /\ request' = o.response
          /\ tickets' = o.tickets
          /\ users' = o.users
    /\ clock' = clock + 1
    /\ CreateFrame

CreateReturn ==
    /\ request.pc = "done"
    /\ request' = Idle
    /\ UNCHANGED <<tickets, users, clock>>
    /\ CreateFrame

CreateNext ==
    \/ \E c \in CreateActors, b \in CreateBodies, f \in SyncFaults : CreateTicket(c, b, f)
    \/ CreateReturn

CreateSpec == CreateInit /\ [][CreateNext]_vars

(***************************************************************************)
(* Claims about update_ticket (Spec)                                       *)
(***************************************************************************)
IsDone(s) == pending[s].pc = "done"
NamesPrivilegedField(b) == DOMAIN b \cap {"status", "assignedTo"} # {}
AsksResolvedWithoutResolution(b) ==
    /\ "status" \in DOMAIN b
    /\ Upper(b["status"]) = "RESOLVED"
    /\ ~Truthy(Get(b, "resolution"))
RoleClaim(a) == GetOr(ClaimsOf(a), "custom:role", "CUSTOMER")
PassesUpdateAuthorization(a, id) ==
    \/ RoleClaim(a) \in {"ADMIN", "AGENT"}
    \/ RoleClaim(a) = "CUSTOMER" /\ Get(tickets[id], "createdBy") = Get(ClaimsOf(a), "sub")

\* C4: an update_ticket request from an actor with the customer role never changes a
\* ticket's status or assignedTo, even when the actor created the ticket: no write made
\* for a customer changes the stored status or assignedTo, and a customer's request that
\* names one of the two fields does not end in 200.
C4_CustomerNeverChangesStatusOrAssignee ==
    [][ \A s \in Slots :
          ( /\ UpdateTicketWrite(s)
            /\ Lower(pending[s].user_role) = "customer"
            /\ pending[s].ticket_id \in DOMAIN tickets )
          => /\ tickets'[pending[s].ticket_id].status = tickets[pending[s].ticket_id].status
             /\ tickets'[pending[s].ticket_id].assignedTo
                   = tickets[pending[s].ticket_id].assignedTo
             /\ NamesPrivilegedField(pending[s].body) => pending'[s].code # 200
      ]_vars

\* Every write of update_ticket that sets status RESOLVED stores a non-empty resolution
\* and sets resolvedAt to the time of that write.
ResolvedWritesCarryResolution ==
    \A s \in Slots :
        ( /\ UpdateTicketWrite(s)
          /\ pending[s].ticket_id \in DOMAIN tickets
          /\ tickets'[pending[s].ticket_id].status = "RESOLVED"
          /\ "status" \in DOMAIN pending[s].body )
        => /\ Truthy(Get(tickets'[pending[s].ticket_id], "resolution"))
           /\ Get(pending[s].body, "resolution") = Get(tickets'[pending[s].ticket_id], "resolution")
           /\ Get(tickets'[pending[s].ticket_id], "resolvedAt") = clock'
           /\ tickets'[pending[s].ticket_id].updatedAt = clock'

\* C5 (as stated): for every role, an update_ticket request on a ticket that sets status
\* to RESOLVED without a non-empty resolution is rejected with 400 and performs no write;
\* every write into RESOLVED carries a non-empty resolution and sets resolvedAt.
C5_ResolvedWithoutResolutionIs400 ==
    [][ /\ \A s \in Slots, a \in TicketActors, id \in TicketIds, b \in UpdateBodies :
              ( /\ UpdateTicketRead(s, ClaimsOf(a), id, b)
                /\ id \in DOMAIN tickets
                /\ AsksResolvedWithoutResolution(b) )
              => (pending'[s].pc = "done" /\ pending'[s].code = 400 /\ tickets' = tickets)
        /\ ResolvedWritesCarryResolution
      ]_vars

\* C5 (amended): an update_ticket request on a ticket that sets status to RESOLVED without
\* a non-empty resolution is always rejected at once and performs no write: with 400 when
\* the actor passes the handler's authorization check (ADMIN, AGENT, or the CUSTOMER who
\* created the ticket), with 403 otherwise; every write into RESOLVED carries a non-empty
\* resolution and sets resolvedAt.
C5_ResolvedWithoutResolutionIsRejected ==
    [][ /\ \A b \in UpdateBodies : AsksResolvedWithoutResolution(b) =>
              \A s \in Slots : Arrives(s) =>
                  \A a \in TicketActors, id \in DOMAIN tickets :
                      UpdateTicketRead(s, ClaimsOf(a), id, b)
                      => /\ pending'[s].pc = "done"
                         /\ pending'[s].code =
                                IF PassesUpdateAuthorization(a, id) THEN 400 ELSE 403
                         /\ tickets' = tickets
        /\ ResolvedWritesCarryResolution
      ]_vars

C5_Witness ==
    \E s, r \in Slots :
        /\ IsDone(s) /\ pending[s].op = "update_ticket" /\ pending[s].code = 400
        /\ pending[s].error = "Resolution is required when status is RESOLVED"
        /\ IsDone(r) /\ pending[r].op = "update_ticket" /\ pending[r].code = 200
        /\ "t1" \in DOMAIN tickets
        /\ tickets["t1"].status = "RESOLVED"
        /\ Get(tickets["t1"], "resolution") = "Fixed"
        /\ Get(tickets["t1"], "resolvedAt") = tickets["t1"].updatedAt

\* C6: an update_ticket write made after the ticket's updatedAt has changed since that
\* request read it does not overwrite: it ends in 409 and leaves the stored ticket as
\* the first writer left it.
C6_StaleWriteIsConflict ==
    [][ \A s \in Slots :
          ( /\ UpdateTicketWrite(s)
            /\ pending[s].ticket_id \in DOMAIN tickets
            /\ tickets[pending[s].ticket_id].updatedAt # pending[s].readUpdatedAt )
          => (pending'[s].code = 409 /\ tickets' = tickets)
      ]_vars


\* C17: a DELETE /tickets/{id}?hard=true request removes the ticket record if and only
\* if the actor's role is platform_admin; for every other role it answers 403 and the
\* record stays; without hard=true the record is never removed, it stays with status
\* CLOSED.
C17_HardDeleteIffPlatformAdmin ==
    [][ /\ \A s \in DOMAIN pending, a \in TicketActors, id \in DOMAIN tickets :
              DeleteTicketRead(s, ClaimsOf(a), id, TRUE) =>
                 IF Lower(extract_user_role(ClaimsOf(a))) = "platform_admin"
                 THEN pending'[s].pc = "delete_item"
                 ELSE pending'[s].pc = "done" /\ pending'[s].code = 403
        /\ \A id \in DOMAIN tickets :
              id \notin DOMAIN tickets' =>
                 \E s \in DOMAIN pending :
                     /\ pending[s].pc = "delete_item"
                     /\ pending[s].ticket_id = id
                     /\ Lower(pending[s].user_role) = "platform_admin"
        /\ \A s \in DOMAIN pending :
              (pending[s].pc = "soft_delete" /\ pending'[s].pc = "done"
                  /\ pending'[s].code = 204)
              => /\ pending[s].ticket_id \in DOMAIN tickets'
                 /\ tickets'[pending[s].ticket_id].status = "CLOSED"
      ]_vars

(* C24: every change of status made by update_ticket takes the ticket to a successor  *)
(* of its status in OPEN -> IN_PROGRESS -> {WAITING, RESOLVED} -> CLOSED, and          *)
(* update_ticket never stores the status DELETED.                                      *)
StatusSuccessors(status) ==
    CASE status = "OPEN" -> {"IN_PROGRESS"}
      [] status = "IN_PROGRESS" -> {"WAITING", "RESOLVED"}
      [] status \in {"WAITING", "RESOLVED"} -> {"CLOSED"}
      [] OTHER -> {}

C24_StatusFollowsTheOrder ==
    [][ \A s \in Slots : UpdateTicketWrite(s) =>
            \A t \in DOMAIN tickets \cap DOMAIN tickets' :
                Get(tickets'[t], "status") # Get(tickets[t], "status")
                => Get(tickets'[t], "status") \in StatusSuccessors(Get(tickets[t], "status")) ]_vars

(***************************************************************************)
(* Claims about role management (UsersSpec)                                *)
(***************************************************************************)
PlatformAdmins(table) == { u \in DOMAIN table : table[u].role = "platform_admin" }
LowerRoles == {"org_admin", "technician", "customer"}

\* The step just taken is a run of update_user_role; its event is in request'.
UpdateUserRoleRan == request.pc = "idle" /\ request'.pc = "done" /\ request'.op = "update_user_role"
RequestedRole == Lower(GetOr(request'.body, "role", ""))
ActorRoleClaim == Lower(GetOr(request'.claims, "custom:role", "customer"))
TargetId == request'.userId

\* C7: starting with at least one platform_admin record, after any sequence of
\* update_user_role and get_user_me requests served one at a time at least one user
\* record still has role platform_admin.
C7_SomePlatformAdminRemains == PlatformAdmins(users) # {}

C9_NoSelfRoleChange ==
    [][ ( /\ UpdateUserRoleRan
          /\ TargetId = request'.claims["sub"]
          /\ TargetId \in DOMAIN users
          /\ RequestedRole \in valid_roles
          /\ RequestedRole # users[TargetId].role )
        => (request'.code # 200 /\ users'[TargetId].role = users[TargetId].role)
      ]_vars

\* C10: for an actor whose role is org_admin, every update_user_role request whose
\* requested role is platform_admin in any letter case is denied (403, or 404 when the
\* target does not exist) and changes no user record, whatever the target's role and org.
C10_OrgAdminCannotGrantPlatformAdmin ==
    [][ ( /\ UpdateUserRoleRan
          /\ ActorRoleClaim = "org_admin"
          /\ RequestedRole = "platform_admin" )
        => /\ request'.code = IF TargetId \in DOMAIN users THEN 403 ELSE 404
           /\ users' = users
      ]_vars

C10_Witness ==
    /\ request.pc = "done"
    /\ request.op = "update_user_role"
    /\ Get(request.claims, "custom:role") = "ORG_ADMIN"
    /\ Get(request.body, "role") = "PLATFORM_ADMIN"
    /\ request.userId # request.claims["sub"]
    /\ Get(request.claims, "custom:orgId") = "org-1"
    /\ Get(request.target_user, "orgId") = "org-1"
    /\ Get(request.target_user, "role") = "customer"
    /\ request.code = 403
    /\ request.error = "Only platform administrators can grant platform admin access"
    /\ users[request.userId].role = "customer"

\* C11: after any update_user_role request made by an org_admin actor A, the stored
\* role and orgId of every other user whose role is org_admin, and of every user whose
\* orgId is not A's org, are unchanged; a request made by a technician or customer actor
\* is answered 403 and changes no user record at all.
C11_OrgAdminLeavesPeersAndOtherOrgs ==
    [][ UpdateUserRoleRan =>
          LET A == extract_user_from_event(request'.claims) IN
          /\ ActorRoleClaim = "org_admin" =>
                \A u \in DOMAIN users :
                    ( /\ u # A.user_id
                      /\ \/ users[u].role = "org_admin"
                         \/ users[u].orgId # A.org_id )
                    => (u \in DOMAIN users' /\ users'[u] = users[u])
          /\ ActorRoleClaim \in {"technician", "customer"} =>
                (users' = users /\ request'.code = 403)
      ]_vars

C11_Witness ==
    /\ request.pc = "done"
    /\ request.op = "update_user_role"
    /\ Get(request.claims, "custom:role") = "ORG_ADMIN"
    /\ Get(request.claims, "custom:orgId") = "org-1"
    /\ request.userId # request.claims["sub"]
    /\ Get(request.target_user, "role") = "org_admin"
    /\ Get(request.target_user, "orgId") = "org-1"
    /\ Get(request.body, "role") = "customer"
    /\ request.code = 403
    /\ request.error = "You cannot change another organization admin's role"
    /\ users[request.userId] = request.target_user

\* C19: for every actor who is not platform_admin, every user record returned by
\* list_users and by get_technicians has orgId equal to the actor's org_id, for every
\* value of the actor's org_id, absent included (a customer gets only their own record
\* from list_users and 403 from get_technicians); a platform_admin gets all orgs, or
\* only the org named by the orgId query parameter.
C19_ListedUsersAreOfTheActorsOrg ==
    (request.pc = "done" /\ request.op \in {"list_users", "get_technicians"}) =>
        LET user == extract_user_from_event(request.claims)
            named == Get(request.params, "orgId")
        IN /\ \A i \in 1..Len(request.users) :
                 Get(request.users[i], "orgId") =
                     IF is_platform_admin(user)
                     THEN (IF Truthy(named) THEN named ELSE Get(request.users[i], "orgId"))
                     ELSE user.org_id
           /\ (is_customer(user) /\ request.op = "list_users") =>
                 (Len(request.users) = 1 /\ request.users[1].userId = user.user_id)
           /\ (is_customer(user) /\ request.op = "get_technicians") => request.code = 403

\* C21: an actor whose role claim, after case folding, is none of platform_admin,
\* org_admin, technician, customer obtains from list_users exactly what a customer of
\* the same id and org obtains, never more: no record of another user.
C21_UnknownRoleListsOnlyItself ==
    ( /\ request.pc = "done"
      /\ request.op = "list_users"
      /\ Lower(GetOr(request.claims, "custom:role", "customer")) \notin valid_roles )
    => \A i \in 1..Len(request.users) :
           request.users[i].userId = extract_user_from_event(request.claims).user_id

(***************************************************************************)
(* Claims about update_user_role's store calls (RoleRaceSpec, RoleFaultSpec) *)
(***************************************************************************)
(* C25: whatever the interleaving of the get_item, scan and update_item calls of      *)
(* concurrent update_user_role requests, the users table keeps a platform_admin       *)
(* record, and two requests that each lower a different platform_admin do not both    *)
(* answer 200.                                                                        *)
Demoted(p) ==
    /\ p.pc = "done"
    /\ p.code = 200
    /\ Lower(GetOr(p.target_user, "role", "")) = "platform_admin"
    /\ p.new_role \in LowerRoles

C25_RacesKeepAPlatformAdmin ==
    /\ PlatformAdmins(users) # {}
    /\ \A s, r \in RoleSlots :
           Demoted(pending[s]) /\ Demoted(pending[r])
           => pending[s].target_user_id = pending[r].target_user_id

(* C30: when the scan that counts the platform_admin records has failed, the          *)
(* update_item of that request leaves the stored role of its platform_admin target    *)
(* as it was.                                                                         *)
C30_FailedCountKeepsTheRole ==
    [][ \A s \in RoleSlots :
            ( /\ UpdateUserRoleWrite(s)
              /\ pending[s].scanned
              /\ ~pending[s].scan_ok )
            => users'[pending[s].target_user_id].role
                   = users[pending[s].target_user_id].role ]_vars

(***************************************************************************)
(* Claims about comments and the ticket workflow (WorkflowSpec)            *)
(***************************************************************************)
AGENT_ROLES == {"technician", "org_admin", "platform_admin"}

\* C12: every comment stored by create_comment whose author is a customer (the role of
\* the author's user record is not technician, org_admin or platform_admin) has
\* isInternal = FALSE, whatever isInternal value the request carried.
C12_CustomerCommentsNeverInternal ==
    \A i \in 1..Len(comments) :
        comments[i].authorRole \notin AGENT_ROLES => ~comments[i].isInternal

\* C13: list_comments never returns a comment with isInternal = TRUE to an actor whose
\* role is not technician, org_admin or platform_admin, the customer who created the
\* ticket included; and it answers 403, returning no comment at all, to an actor for
\* whom can_access_ticket on the ticket is FALSE.
C13_InternalNotesHiddenFromNonAgents ==
    [][ \A s \in DOMAIN pending, c \in WorkflowActors, id \in DOMAIN tickets :
          ListComments(s, c, id) =>
             LET user == extract_user_from_event(c)
                 answer == pending'[s]
             IN /\ ~can_access_ticket(user, tickets[id]) =>
                      (answer.code = 403 /\ "comments" \notin DOMAIN answer)
                /\ ( /\ Lower(GetOr(c, "custom:role", "customer")) \notin AGENT_ROLES
                     /\ "comments" \in DOMAIN answer )
                   => \A i \in 1..Len(answer.comments) : ~answer.comments[i].isInternal
      ]_vars

C13_Witness ==
    \E s \in DOMAIN pending :
        /\ pending[s].pc = "done"
        /\ pending[s].op = "list_comments"
        /\ pending[s].code = 200
        /\ pending[s].user.role = "customer"
        /\ pending[s].user.user_id = Get(tickets[pending[s].ticket_id], "createdBy")
        /\ pending[s].comments = << >>
        /\ \E i \in 1..Len(comments) :
              comments[i].isInternal /\ comments[i].ticketId = pending[s].ticket_id

\* C16: a ticket's orgId and createdBy never change after creation: every ticket
\* record in the table carries the orgId and createdBy it was created with, whatever
\* update_ticket, assign_ticket, delete_ticket and create_comment requests were served.
C16_TicketOrgAndCreatorImmutable ==
    \A id \in DOMAIN tickets :
        /\ id \in DOMAIN WorkflowTickets
        /\ Get(tickets[id], "orgId") = WorkflowTickets[id].orgId
        /\ Get(tickets[id], "createdBy") = WorkflowTickets[id].createdBy

(* C23: CLOSED is terminal: once a stored ticket has status CLOSED, no step of          *)
(* update_ticket, assign_ticket, delete_ticket or create_comment leaves it stored     *)
(* with another status.                                                               *)
C23_ClosedIsTerminal ==
    [][ \A t \in DOMAIN tickets \cap DOMAIN tickets' :
            Get(tickets[t], "status") = "CLOSED" => Get(tickets'[t], "status") = "CLOSED" ]_vars

(* C26: for an actor whose role is one of the four lowercase tiers and a stored       *)
(* ticket, get_ticket, update_ticket and delete_ticket answer 403 exactly when         *)
(* can_access_ticket, can_update_ticket and can_delete_ticket, respectively, are       *)
(* false for that actor and ticket; the authorization step writes nothing.             *)
Refused(p) == p.pc = "done" /\ p.code = 403

C26_HandlersDecideAsThePredicates ==
    [][ \A s \in WorkflowSlots, c \in WorkflowActors, id \in DOMAIN tickets :
            GetOr(c, "custom:role", "customer") \in valid_roles
            => LET user == extract_user_from_event(c) IN
               /\ GetTicket(s, c, id)
                  => (Refused(pending'[s]) <=> ~can_access_ticket(user, tickets[id]))
               /\ \A b \in WorkflowUpdateBodies :
                      UpdateTicketRead(s, c, id, b)
                      => /\ Refused(pending'[s]) <=> ~can_update_ticket(user, tickets[id])
                         /\ tickets' = tickets
               /\ \A h \in BOOLEAN :
                      DeleteTicketRead(s, c, id, h)
                      => /\ Refused(pending'[s]) <=> ~can_delete_ticket(user, tickets[id], h)
                         /\ tickets' = tickets ]_vars

(* C27: create_comment answers 403, and stores nothing, to every actor for whom        *)
(* can_access_ticket is false on the ticket; a comment is stored, and the ticket's     *)
(* updatedAt and lastCommentAt are touched, only for an actor who can access it.       *)
C27_CommentsOnlyFromActorsWithAccess ==
    [][ /\ \A s \in WorkflowSlots, c \in WorkflowActors, id \in DOMAIN tickets,
              b \in CommentBodies :
               ( /\ CreateCommentRead(s, c, id, b)
                 /\ ~can_access_ticket(extract_user_from_event(c), tickets[id]) )
               => Refused(pending'[s])
        /\ \A s \in WorkflowSlots :
               ( /\ CreateCommentWrite(s)
                 /\ pending[s].ticket_id \in DOMAIN tickets )
               => can_access_ticket(pending[s].user, tickets[pending[s].ticket_id]) ]_vars

(***************************************************************************)
(* Claims about organizations (OrgsSpec)                                   *)
(***************************************************************************)
\* C14: in every reachable state of the organizations table no two records have the
\* same slug, under any sequence and any interleaving of create_organization requests,
\* each a uniqueness scan followed by an insert.
C14_SlugsAreUnique ==
    \A a, b \in DOMAIN orgs : a # b => orgs[a].slug # orgs[b].slug

\* C15: create_organization inserts a record only when the actor's role is
\* platform_admin; for every other role it answers 403, and for missing claims or a
\* missing subject 401, the organizations table unchanged in both cases.  A created
\* organization has status active and the requested name and slug (trimmed, the slug
\* lowercased).
C15_OnlyPlatformAdminCreatesOrganizations ==
    [][ /\ \A s \in DOMAIN pending, c \in OrgActors, b \in OrgBodies :
              CreateOrganizationRead(s, c, b) =>
                 /\ orgs' = orgs
                 /\ (DOMAIN c = {} \/ ~Truthy(Get(c, "sub"))) => pending'[s].code = 401
                 /\ ( /\ Truthy(Get(c, "sub"))
                      /\ Lower(GetOr(c, "custom:role", "")) # "platform_admin" )
                    => pending'[s].code = 403
                 /\ pending'[s].pc = "put_item" =>
                       /\ Get(c, "custom:role") = "platform_admin"
                       /\ pending'[s].name = Strip(b.name)
                       /\ pending'[s].slug = Lower(Strip(b.slug))
        /\ orgs' # orgs =>
              \E s \in DOMAIN pending, o \in DOMAIN orgs' \ DOMAIN orgs :
                  /\ pending[s].pc = "put_item"
                  /\ pending[s].user_claims.role = "platform_admin"
                  /\ \A k \in DOMAIN orgs : orgs'[k] = orgs[k]
                  /\ DOMAIN orgs' = DOMAIN orgs \cup {o}
                  /\ orgs'[o].status = "active"
                  /\ orgs'[o].name = pending[s].name
                  /\ orgs'[o].slug = pending[s].slug
                  /\ pending'[s].pc = "done"
                  /\ pending'[s].code = 201
      ]_vars

C15_Witness ==
    /\ \E s \in DOMAIN pending :
          /\ pending[s].pc = "done"
          /\ pending[s].code = 201
          /\ pending[s].role = "platform_admin"
          /\ pending[s].orgId \in DOMAIN orgs
          /\ orgs[pending[s].orgId].status = "active"
          /\ orgs[pending[s].orgId].slug = "acme"
          /\ orgs[pending[s].orgId].name = "Acme Three"
    /\ \E s \in DOMAIN pending : pending[s].pc = "done" /\ pending[s].code = 403
    /\ Cardinality(DOMAIN orgs) = 1

(***************************************************************************)
(* Claims about list_tickets (ListingSpec)                                 *)
(***************************************************************************)
\* C18: every ticket returned by list_tickets, on any page and with a status filter,
\* an assignedTo filter or no filter, is visible to the requesting actor per
\* can_access_ticket: for an actor who is not platform_admin its orgId equals the
\* actor's org_id, and for a customer its createdBy equals the actor's id.
C18_ListedTicketsAreVisible ==
    (request.pc = "done" /\ request.op = "list_tickets") =>
        LET user == extract_user_from_event(request.claims) IN
        \A i \in 1..Len(request.tickets) :
            LET t == request.tickets[i] IN
            /\ can_access_ticket(user, t)
            /\ ~is_platform_admin(user) => t.orgId = user.org_id
            /\ is_customer(user) => t.createdBy = user.user_id

(* C22: decode_cursor(encode_cursor(k)) = k for every store key k built from strings  *)
(* and nested maps, and the nextCursor of a list_tickets response, passed back as     *)
(* cursor, reaches the store as ExclusiveStartKey equal to the LastEvaluatedKey the    *)
(* store had reported.                                                                *)
C22_CursorRoundTrip ==
    [][ request'.pc = "done" =>
          /\ request'.op = "cursor" => request'.decoded = request'.key
          /\ ( /\ request.pc = "done"
               /\ request.op = "list_tickets"
               /\ "nextCursor" \in DOMAIN request
               /\ request'.op = "list_tickets"
               /\ request'.code = 200
               /\ "cursor" \in DOMAIN request'.query
               /\ request'.query["cursor"] = request.nextCursor )
             => /\ "ExclusiveStartKey" \in DOMAIN request'
                /\ request'.ExclusiveStartKey = request.LastEvaluatedKey ]_vars

\* The second page was asked for with the cursor of the first, and the third with the
\* cursor of the second: the store was told to start after the last ticket.
C22_Witness ==
    /\ request.pc = "done"
    /\ request.op = "list_tickets"
    /\ request.code = 200
    /\ "ExclusiveStartKey" \in DOMAIN request
    /\ request.ExclusiveStartKey = LastKey([ticketId |-> "t2"], None)

(***************************************************************************)
(* Claims about create_ticket (CreateSpec)                                 *)
(***************************************************************************)
NewTicketIds == DOMAIN tickets' \ DOMAIN tickets
NamesAnOrg(c, body) ==
    Lower(GetOr(c, "custom:role", "customer")) = "platform_admin" /\ Truthy(Get(body, "orgId"))
WithoutOrgId(body) == [k \in DOMAIN body \ {"orgId"} |-> body[k]]

C29_SyncFailureIsSwallowed ==
    [][ \A c \in CreateActors, body \in CreateBodies, f \in SyncFaults \ {"none"} :
            CreateTicket(c, body, f) =>
                LET o == create_ticket_outcome(c, body, "none", tickets, users, clock + 1)
                IN /\ request' = o.response
                   /\ tickets' = o.tickets
                   /\ o.response.code = 201 => NewTicketIds # {} ]_vars

\* A ticket of cust1 is stored although cust1 has no users record: the put_item of the
\* sync failed, or the get_item before it.
C29_Witness ==
    /\ request.pc = "done"
    /\ request.code = 201
    /\ "cust1" \notin DOMAIN users
    /\ \E t \in DOMAIN tickets : tickets[t].createdBy = "cust1"

(***************************************************************************)
(* Claims about the predicates (AuthSpec)                                  *)
(***************************************************************************)
TicketOrg == Get(ticket, "orgId")
ClaimedRole == Lower(GetOr(claims, "custom:role", "customer"))
ActorOrg == IF DOMAIN claims = {} THEN "test-org-123" ELSE Get(claims, "custom:orgId")
ActorId == IF DOMAIN claims = {} THEN "test-user-123" ELSE GetOr(claims, "sub", "unknown")
AllTicketPredicatesDeny ==
    ~verdict.access /\ ~verdict.update /\ ~verdict.assign /\ ~verdict.delete

\* C1 (as stated): for every actor that is not platform_admin and every ticket, the orgId
\* ranging over the org ids and the absent value, if the actor's org differs from the
\* ticket's orgId then access, update, assign and soft delete are all denied.
C1_IsolationAnyOrgValue ==
    (Evaluated /\ ClaimedRole # "platform_admin" /\ ActorOrg # TicketOrg)
        => AllTicketPredicatesDeny

\* C1 (amended): for every actor that is not platform_admin and every ticket whose orgId is
\* present and non-empty and differs from the actor's org (which may be absent), access,
\* update, assign and soft delete are all denied, whatever the role and the creator.
C1_IsolationWhenTicketOrgSet ==
    (Evaluated /\ ClaimedRole # "platform_admin" /\ Truthy(TicketOrg) /\ ActorOrg # TicketOrg)
        => AllTicketPredicatesDeny

C1_Witness ==
    /\ Evaluated
    /\ ClaimedRole = "technician"
    /\ ActorOrg = "org-1"
    /\ TicketOrg = "org-2"
    /\ Get(ticket, "createdBy") = ActorId
    /\ AllTicketPredicatesDeny

\* C2 (as stated): for a customer, can_access_ticket is False whenever the ticket's orgId
\* differs from the customer's org, even for the creator; when the orgs match it is True
\* iff the customer created the ticket; a technician of the ticket's org is allowed.
C2_CustomerOrgBeforeOwner ==
    /\ (Evaluated /\ ClaimedRole = "customer" /\ ActorOrg # TicketOrg) => ~verdict.access
    /\ (Evaluated /\ ClaimedRole = "customer" /\ ActorOrg = TicketOrg)
          => (verdict.access <=> Get(ticket, "createdBy") = ActorId)
    /\ (Evaluated /\ ClaimedRole = "technician" /\ ActorOrg = TicketOrg) => verdict.access

\* C2 (amended): for a customer, can_access_ticket is False whenever the ticket's orgId is
\* present, non-empty and differs from the customer's org, even for the creator; in every
\* other case (orgs match, or the ticket carries no orgId) it is True iff the customer
\* created the ticket; a technician of the ticket's org is allowed.
C2_CustomerOrgBeforeOwnerWhenOrgSet ==
    /\ (Evaluated /\ ClaimedRole = "customer" /\ Truthy(TicketOrg) /\ ActorOrg # TicketOrg)
          => ~verdict.access
    /\ (Evaluated /\ ClaimedRole = "customer" /\ ~(Truthy(TicketOrg) /\ ActorOrg # TicketOrg))
          => (verdict.access <=> Get(ticket, "createdBy") = ActorId)
    /\ (Evaluated /\ ClaimedRole = "technician" /\ ActorOrg = TicketOrg) => verdict.access

C2_Witness ==
    /\ Evaluated
    /\ ClaimedRole = "customer"
    /\ ActorOrg = "org-1"
    /\ TicketOrg = "org-2"
    /\ Get(ticket, "createdBy") = ActorId
    /\ ~verdict.access

\* C3: an actor whose role claim is platform_admin after case folding gets True from
\* can_access_ticket, can_update_ticket and can_access_org for every ticket and org id,
\* whatever the actor's own org (none included) and whoever created the ticket.
C3_PlatformAdminAlwaysAllowed ==
    (Evaluated /\ ClaimedRole = "platform_admin")
        => (verdict.access /\ verdict.update /\ verdict.access_org)

C3_Witness ==
    /\ Evaluated
    /\ Get(claims, "custom:role") = "PLATFORM_ADMIN"
    /\ "custom:orgId" \notin DOMAIN claims
    /\ TicketOrg = "org-2"
    /\ Get(ticket, "createdBy") # ActorId
    /\ orgArg = "org-1"
    /\ verdict.access /\ verdict.update /\ verdict.access_org

\* C20: when the identity claims of a request contain no subject id (claims absent or
\* empty, or present without sub) the caller is anonymous: every access-control
\* predicate evaluated for that request returns FALSE.
C20_AnonymousIsDeniedEverywhere ==
    (Evaluated /\ "sub" \notin DOMAIN claims) =>
        /\ AllTicketPredicatesDeny
        /\ ~verdict.hard_delete
        /\ ~verdict.access_org
        /\ ~verdict.manage_org

====
